---- MODULE Spec2Model ----
(***************************************************************************)
(* The telemetry / alerting core of the cash-counter monitoring app:       *)
(* TelemetryManagerMongoDB (src/telemetry_manager_mongodb.py) on top of    *)
(* MongoDBHandler (src/app/db/mongo_handler.py), and its predecessor       *)
(* TelemetryManager (src/old_sqlite_system/telemetry_manager.py).          *)
(*                                                                         *)
(* Worker threads call the manager's methods concurrently.  Every thread   *)
(* has a call stack of frames; one action is one step of the frame on top  *)
(* of a stack.  self.lock is a threading.Lock: it is not reentrant, so a   *)
(* frame that reaches "acquire" while the lock is taken waits, also when   *)
(* the holder is a frame further down in its own stack.                    *)
(*                                                                         *)
(* Units: latency in ms; cost in 1/1000 USD (0.005 USD is 5); error-rate   *)
(* thresholds in 1/1000 (0.1 is 100); one clock tick is one hour.          *)
(***************************************************************************)
EXTENDS Integers, Sequences, FiniteSets, TLC

\* ------------------------------------------------------------------ bounds
NThreads == 2
MaxCalls == 2
MaxClock == 1

Threads == 1..NThreads

\* ------------------------------------------------------------------ values
\* Python's None and dict values, as they are passed for metadata / details.
None == [isNone |-> TRUE, items |-> {}]
Dict(items) == [isNone |-> FALSE, items |-> items]

LatencyValues == {3000, 3001}
CostValues == {0, 5, 6}
MetricValues == {120}
MetadataValues == {None, Dict({<<"case", "t1">>})}
AlertTypes == {"high_error_rate", "critical_failure", "high_latency", "high_cost", "disk_full"}
HoursValues == {1}
LimitValues == {1}

VARIABLES
    backend,           \* which manager class is running: "mongodb" or "sqlite"
    config_path,       \* what the config_path given to __init__ names
    manager,           \* "none" before __init__, then "built", or "raised" when it failed
    alert_thresholds,  \* self.alert_thresholds
    metrics,           \* self.metrics (the running counters)
    alerts,            \* self.alerts (in-memory list of Alert)
    lock,              \* self.lock: 0 when free, else the thread that holds it
    telemetry,         \* the metric store (mongo.telemetry / table metrics)
    db_alerts,         \* the alert store (mongo.alerts / table alerts)
    system_health,     \* mongo.system_health
    log,               \* the lines given to the logger at warning level or above
    webhook_posts,     \* the requests.post calls made, in order
    ALERT_WEBHOOK,     \* whether the environment variable is set
    now,               \* the wall clock
    stack,             \* per thread: the frames of its current call
    result,            \* per thread: the outcome of its latest API call
    calls,             \* per thread: the API calls it has made so far
    gemini_model,      \* app_mongodb.gemini_model: FALSE for None (no GOOGLE_API_KEY)
    observations,      \* mongo.observations, the documents in the order of their insertion
    session_state,     \* st.session_state of the one browser session
    sqlite_db,         \* robust_telemetry.db of app.py: its tables, their columns and rows
    _instance,         \* per accessor, its module global: 0 for None, else the instance
    instances          \* per accessor, how many instances its class has constructed

vars == <<backend, config_path, manager, alert_thresholds, metrics, alerts, lock, telemetry, db_alerts,
          system_health, log, webhook_posts, ALERT_WEBHOOK, now, stack, result, calls,
          gemini_model, observations, session_state, sqlite_db, _instance, instances>>

store_vars == <<telemetry, db_alerts, system_health>>
env_vars == <<ALERT_WEBHOOK, now>>
app_vars == <<gemini_model, observations, session_state, sqlite_db, _instance, instances>>
config_vars == <<backend, config_path, manager, alert_thresholds, app_vars>>

\* ------------------------------------------------------------------ construction
\* The defaults of __init__, used when the configuration has no 'thresholds'.
DefaultThresholds ==
    [latency |-> 3000, cost |-> 5, error_rate |-> 100, cpu_usage |-> 80, memory_usage |-> 85]

\* What _load_config can return: {} (no path, no file, or a failed load), or
\* the parsed JSON object of a configuration file; the one here sets the error
\* rate to 1.0 and repeats the limits under the names of the alert types.
ConfigFiles ==
    { [loaded |-> FALSE, thresholds |-> DefaultThresholds],
      [loaded |-> TRUE, thresholds |-> [latency |-> 3000, cost |-> 5, error_rate |-> 1000,
                                        high_latency |-> 3000, high_cost |-> 5]] }

\* self.config.get('thresholds', {...defaults...})
InitThresholds(config) == IF config.loaded THEN config.thresholds ELSE DefaultThresholds

\* A line given to the logger; seq is the alert it is about, 0 for none.
LogLine(level, msg, seq) == [level |-> level, msg |-> msg, seq |-> seq]

\* What config_path can name: no path at all (None), a path with no file, a
\* file that cannot be read or is not JSON, and a file with a JSON object.
ConfigPaths == {"no path", "missing file", "unreadable file", "valid file"}

\* The {} that _load_config returns when it has loaded nothing.
EmptyConfig == CHOOSE config \in ConfigFiles : ~config.loaded

\* _load_config(config_path).  open() / json.load() of an unreadable file
\* raises: TelemetryManagerMongoDB catches it, logs a warning and returns {};
\* TelemetryManager (SQLite) has no try and lets it out of __init__.
_load_config(class, path) ==
    CASE path = "valid file" ->
           [raised |-> FALSE, warned |-> FALSE,
            config |-> CHOOSE config \in ConfigFiles : config.loaded]
      [] path = "unreadable file" ->
           [raised |-> class = "sqlite", warned |-> class = "mongodb", config |-> EmptyConfig]
      [] OTHER ->
           [raised |-> FALSE, warned |-> FALSE, config |-> EmptyConfig]

InitMetrics ==
    [error_count |-> 0, total_operations |-> 0, total_latency |-> 0, total_cost |-> 0,
     start_time |-> 0]

Idle == [status |-> "idle", value |-> None]

\* The process before the manager exists: nothing stored, nobody calling.
Fresh ==
    /\ backend \in {"mongodb", "sqlite"}
    /\ metrics = InitMetrics
    /\ alerts = <<>>
    /\ lock = 0
    /\ telemetry = <<>>
    /\ db_alerts = <<>>
    /\ system_health = <<>>
    /\ log = <<>>
    /\ webhook_posts = <<>>
    /\ ALERT_WEBHOOK \in BOOLEAN
    /\ now = 0
    /\ stack = [t \in Threads |-> <<>>]
    /\ result = [t \in Threads |-> Idle]
    /\ calls = [t \in Threads |-> <<>>]

\* st.session_state of a session that has not run the feedback page yet.
NewSession == [keys |-> {}, feedback_submitted |-> FALSE]

\* robust_telemetry.db before anything has created a table in it.
EmptyDatabase == [observations |-> [exists |-> FALSE, columns |-> <<>>, rows |-> <<>>],
                  performance_metrics |-> FALSE]

\* The three accessors of a global instance, and their globals at import.
Accessors == {"get_telemetry_manager_mongodb", "get_telemetry_manager", "get_mongo_handler"}
NoInstances == [accessor \in Accessors |-> 0]

\* The manager taken alone: no application around it, no accessor in use.
NoApp ==
    /\ gemini_model = TRUE
    /\ observations = <<>>
    /\ session_state = NewSession
    /\ sqlite_db = EmptyDatabase
    /\ _instance = NoInstances
    /\ instances = NoInstances

\* The manager as constructed without a path (what the singleton accessor
\* does) or with a configuration file that loads.
Init ==
    /\ Fresh
    /\ NoApp
    /\ config_path \in {"no path", "valid file"}
    /\ manager = "built"
    /\ alert_thresholds = InitThresholds(_load_config(backend, config_path).config)

\* The state in which the constructor is about to run, for any config_path.
InitConstruct ==
    /\ Fresh
    /\ NoApp
    /\ config_path \in ConfigPaths
    /\ manager = "none"
    /\ alert_thresholds = [unset |-> TRUE]

\* __init__(config_path), with the store reachable: self.config, the
\* thresholds, the counters, the empty alert list and the lock.
__init__ ==
    /\ manager = "none"
    /\ LET loaded == _load_config(backend, config_path)
       IN IF loaded.raised
          THEN /\ manager' = "raised"
               /\ UNCHANGED <<alert_thresholds, metrics, log>>
          ELSE /\ manager' = "built"
               /\ alert_thresholds' = InitThresholds(loaded.config)
               /\ metrics' = [InitMetrics EXCEPT !.start_time = now]
               /\ log' = IF loaded.warned
                         THEN Append(log, LogLine("warning", "Failed to load config", 0))
                         ELSE log
    /\ UNCHANGED <<backend, config_path, alerts, lock, store_vars, webhook_posts, env_vars,
                   stack, result, calls, app_vars>>

\* ------------------------------------------------------------------ frames
Frame(fn, pc, args, loc) == [fn |-> fn, pc |-> pc, args |-> args, loc |-> loc]
NoArgs == [none |-> TRUE]
NoLocals == [none |-> TRUE]

Top(t) == stack[t][Len(stack[t])]
At(t, fn, pc) == /\ stack[t] # <<>>
                 /\ Top(t).fn = fn
                 /\ Top(t).pc = pc
Front(s) == SubSeq(s, 1, Len(s) - 1)
WithTop(s, f) == [s EXCEPT ![Len(s)] = f]

\* The frame on top moves to pc.
Goto(t, pc) == stack' = [stack EXCEPT ![t] = WithTop(@, [Top(t) EXCEPT !.pc = pc])]
\* The frame on top calls f and goes on at pc when f returns.
CallAt(t, pc, f) ==
    stack' = [stack EXCEPT ![t] = Append(WithTop(@, [Top(t) EXCEPT !.pc = pc]), f)]
\* The frame on top returns v; the API call is over when it was the only frame.
Return(t, v) ==
    /\ stack' = [stack EXCEPT ![t] = Front(@)]
    /\ result' = [result EXCEPT ![t] =
                    IF Len(stack[t]) = 1 THEN [status |-> "returned", value |-> v] ELSE @]
\* An exception that no frame of the stack catches: every `with self.lock:` on
\* the way out releases the lock, and the error reaches the caller of the API.
Raise(t, e) ==
    /\ stack' = [stack EXCEPT ![t] = <<>>]
    /\ result' = [result EXCEPT ![t] = [status |-> "raised", value |-> Dict({<<"error", e>>})]]
    /\ lock' = IF lock = t THEN 0 ELSE lock

\* The entry of a block that does not wait for the lock to be free.
Acquire_without_wait(t, fn) ==
    /\ At(t, fn, "acquire")
    /\ lock' = t
    /\ Goto(t, "body")
    /\ UNCHANGED <<config_vars, metrics, alerts, store_vars, log, webhook_posts, env_vars,
                   result, calls>>

\* `with self.lock:` entered by the frame on top.
Acquire(t, fn) ==
    /\ At(t, fn, "acquire")
    /\ lock = 0
    /\ lock' = t
    /\ Goto(t, "body")
    /\ UNCHANGED <<config_vars, metrics, alerts, store_vars, log, webhook_posts, env_vars,
                   result, calls>>

\* ------------------------------------------------------------------ callers
CallsMade == LET RECURSIVE Sum(_)
                 Sum(n) == IF n = 0 THEN 0 ELSE Len(calls[n]) + Sum(n - 1)
             IN Sum(NThreads)

\* A thread that is not inside a call makes the API call fn(args).
Invoke(t, fn, pc, args) ==
    /\ stack[t] = <<>>
    /\ CallsMade < MaxCalls
    /\ stack' = [stack EXCEPT ![t] = <<Frame(fn, pc, args, NoLocals)>>]
    /\ result' = [result EXCEPT ![t] = [status |-> "running", value |-> None]]
    /\ calls' = [calls EXCEPT ![t] = Append(@, [fn |-> fn, args |-> args])]
    /\ UNCHANGED <<config_vars, metrics, alerts, lock, store_vars, log, webhook_posts, env_vars>>

call_record_operation(t) ==
    \E latency_ms \in LatencyValues, cost_usd \in CostValues, success \in BOOLEAN :
        Invoke(t, "record_operation", "acquire",
               [latency_ms |-> latency_ms, cost_usd |-> cost_usd, success |-> success])

call_record_error(t) ==
    Invoke(t, "record_error", "acquire", [error_type |-> "general", details |-> None])

call_record_metric(t) ==
    \E value \in MetricValues, metadata \in MetadataValues :
        Invoke(t, "record_metric", "enter",
               [metric_type |-> "latency", value |-> value, metadata |-> metadata])

call_send_alert(t) ==
    \E alert_type \in AlertTypes :
        Invoke(t, "send_alert", "acquire",
               [alert_type |-> alert_type, data |-> [source |-> "caller"]])

call_get_system_health(t) ==
    Invoke(t, "get_system_health", "acquire", NoArgs)

call_get_recent_alerts(t) ==
    \E limit \in LimitValues :
        Invoke(t, "get_recent_alerts", "query", [limit |-> limit])

call_get_metrics_summary(t) ==
    \E hours \in HoursValues :
        Invoke(t, "get_metrics_summary", "metrics", [hours |-> hours])

\* ------------------------------------------------------------------ helpers
Str(s) == [isNone |-> FALSE, items |-> {<<"str", s>>}]
\* The denominator taken as it is, without the floor of 1.
Max_without_floor(a, b) == b
Max(a, b) == IF a >= b THEN a ELSE b

\* `metadata or {}`: None and the empty dict both give the empty dict.
OrEmptyDict(d) == IF d.isNone \/ d.items = {} THEN Dict({}) ELSE d

\* json.dumps(d): the text of d, which is not d.
JsonDumps(d) == [json |-> d]

\* error_count / max(1, total_operations) > threshold, with the threshold in 1/1000.
RateExceeds(error_count, total_operations, threshold) ==
    error_count * 1000 > threshold * Max(1, total_operations)

\* The quotient n / max(1, d) as the fraction it is.
Ratio(n, d) == [num |-> n, den |-> Max(1, d)]

\* ------------------------------------------------------------------ reading the stores
\* The scan with the comparison turned round ("$lte", "<"): the records older
\* than the window.
telemetry_find_before(cutoff) ==
    SelectSeq(telemetry, LAMBDA r : IF backend = "mongodb" THEN r.timestamp <= cutoff
                                    ELSE r.timestamp < cutoff)

\* The scan of the metric store that get_metrics_summary makes for a window:
\* {"timestamp": {"$gte": cutoff}} in MongoDB, "WHERE timestamp > ?" in SQLite.
\* cutoff is the time of the call minus the hours of the window.
telemetry_find(cutoff) ==
    SelectSeq(telemetry, LAMBDA r : IF backend = "mongodb" THEN r.timestamp >= cutoff
                                    ELSE r.timestamp > cutoff)

\* json.loads of a stored text.
JsonLoads(text) == text.json

\* The same scan of the alert store.
db_alerts_find(cutoff) ==
    SelectSeq(db_alerts, LAMBDA r : IF backend = "mongodb" THEN r.timestamp >= cutoff
                                    ELSE r.timestamp > cutoff)

\* ------------------------------------------------------------------ record_metric
\* TelemetryManagerMongoDB.record_metric with MongoDBHandler.save_telemetry:
\* takes no lock; a failed insert is logged by both and "" is returned.
\* float(value) leaves the value of a number as it is.
record_metric_mongodb(t) ==
    /\ At(t, "record_metric", "enter")
    /\ backend = "mongodb"
    /\ LET a == Top(t).args
           metric_data == [metric_type |-> a.metric_type, value |-> a.value,
                           metadata |-> OrEmptyDict(a.metadata), timestamp |-> now]
       IN \E inserted \in BOOLEAN :
            IF inserted
            THEN /\ telemetry' = Append(telemetry, metric_data)
                 /\ log' = log
                 /\ Return(t, Str("oid"))
            ELSE /\ telemetry' = telemetry
                 /\ log' = log \o <<LogLine("error", "Failed to save telemetry", 0),
                                    LogLine("error", "Failed to record metric", 0)>>
                 /\ Return(t, Str(""))
    /\ UNCHANGED <<config_vars, metrics, alerts, lock, db_alerts, system_health,
                   webhook_posts, env_vars, calls>>

\* TelemetryManager.record_metric: `with self.lock:` first.
record_metric_acquire(t) ==
    /\ At(t, "record_metric", "enter")
    /\ backend = "sqlite"
    /\ lock = 0
    /\ lock' = t
    /\ Goto(t, "body")
    /\ UNCHANGED <<config_vars, metrics, alerts, store_vars, log, webhook_posts, env_vars,
                   result, calls>>

\* TelemetryManager.record_metric: the INSERT; a failure of sqlite3 is not caught.
record_metric_insert(t) ==
    /\ At(t, "record_metric", "body")
    /\ LET a == Top(t).args
           row == [metric_type |-> a.metric_type, value |-> a.value,
                   metadata |-> JsonDumps(OrEmptyDict(a.metadata)), timestamp |-> now]
       IN \E inserted \in BOOLEAN :
            IF inserted
            THEN /\ telemetry' = Append(telemetry, row)
                 /\ lock' = 0
                 /\ Return(t, None)
            ELSE /\ telemetry' = telemetry
                 /\ Raise(t, "sqlite3.Error")
    /\ UNCHANGED <<config_vars, metrics, alerts, db_alerts, system_health, log,
                   webhook_posts, env_vars, calls>>

\* ------------------------------------------------------------------ record_operation
record_operation_acquire(t) == Acquire(t, "record_operation")

\* The update with the line `self.metrics['total_cost'] += cost_usd` left out.
record_operation_update_without_cost(t) ==
    /\ At(t, "record_operation", "body")
    /\ LET a == Top(t).args
           counted == [metrics EXCEPT !.total_operations = @ + 1,
                                      !.total_latency = @ + a.latency_ms]
       IN IF ~a.success
          THEN /\ metrics' = [counted EXCEPT !.error_count = @ + 1]
               /\ CallAt(t, "latency_metric",
                         Frame("record_error", "acquire",
                               [error_type |-> "general", details |-> None], NoLocals))
          ELSE /\ metrics' = counted
               /\ Goto(t, "latency_metric")
    /\ UNCHANGED <<config_vars, alerts, lock, store_vars, log, webhook_posts, env_vars,
                   result, calls>>

\* Lines 90-96: the counters, and for a failure error_count and record_error().
record_operation_update(t) ==
    /\ At(t, "record_operation", "body")
    /\ LET a == Top(t).args
           counted == [metrics EXCEPT !.total_operations = @ + 1,
                                      !.total_latency = @ + a.latency_ms,
                                      !.total_cost = @ + a.cost_usd]
       IN IF ~a.success
          THEN /\ metrics' = [counted EXCEPT !.error_count = @ + 1]
               /\ CallAt(t, "latency_metric",
                         Frame("record_error", "acquire",
                               [error_type |-> "general", details |-> None], NoLocals))
          ELSE /\ metrics' = counted
               /\ Goto(t, "latency_metric")
    /\ UNCHANGED <<config_vars, alerts, lock, store_vars, log, webhook_posts, env_vars,
                   result, calls>>

\* self.record_metric('latency', latency_ms)
record_operation_latency_metric(t) ==
    /\ At(t, "record_operation", "latency_metric")
    /\ CallAt(t, "cost_metric",
              Frame("record_metric", "enter",
                    [metric_type |-> "latency", value |-> Top(t).args.latency_ms,
                     metadata |-> None], NoLocals))
    /\ UNCHANGED <<config_vars, metrics, alerts, lock, store_vars, log, webhook_posts,
                   env_vars, result, calls>>

\* The step with the test `cost_usd > 0` left out: a cost metric for every call.
record_operation_cost_metric_always(t) ==
    /\ At(t, "record_operation", "cost_metric")
    /\ CallAt(t, "check",
              Frame("record_metric", "enter",
                    [metric_type |-> "cost", value |-> Top(t).args.cost_usd,
                     metadata |-> None], NoLocals))
    /\ UNCHANGED <<config_vars, metrics, alerts, lock, store_vars, log, webhook_posts,
                   env_vars, result, calls>>

\* if cost_usd > 0: self.record_metric('cost', cost_usd)
record_operation_cost_metric(t) ==
    /\ At(t, "record_operation", "cost_metric")
    /\ IF Top(t).args.cost_usd > 0
       THEN CallAt(t, "check",
                   Frame("record_metric", "enter",
                         [metric_type |-> "cost", value |-> Top(t).args.cost_usd,
                          metadata |-> None], NoLocals))
       ELSE Goto(t, "check")
    /\ UNCHANGED <<config_vars, metrics, alerts, lock, store_vars, log, webhook_posts,
                   env_vars, result, calls>>

\* self._check_alert_conditions({...})
record_operation_check(t) ==
    /\ At(t, "record_operation", "check")
    /\ CallAt(t, "exit",
              Frame("_check_alert_conditions", "eval", Top(t).args, [alerts |-> <<>>]))
    /\ UNCHANGED <<config_vars, metrics, alerts, lock, store_vars, log, webhook_posts,
                   env_vars, result, calls>>

\* The end of the `with self.lock:` block.
record_operation_exit(t) ==
    /\ At(t, "record_operation", "exit")
    /\ lock' = 0
    /\ Return(t, None)
    /\ UNCHANGED <<config_vars, metrics, alerts, store_vars, log, webhook_posts, env_vars,
                   calls>>

\* ------------------------------------------------------------------ record_error
record_error_acquire(t) == Acquire(t, "record_error")

\* Lines 113-119: error_count, then the 'error' metric.
record_error_update(t) ==
    /\ At(t, "record_error", "body")
    /\ metrics' = [metrics EXCEPT !.error_count = @ + 1]
    /\ LET a == Top(t).args
           error_data == Dict({<<"error_type", a.error_type>>, <<"details", "{}">>,
                               <<"total_errors", ToString(metrics.error_count + 1)>>})
       IN CallAt(t, "rate",
                 Frame("record_metric", "enter",
                       [metric_type |-> "error", value |-> 1, metadata |-> error_data],
                       NoLocals))
    /\ UNCHANGED <<config_vars, alerts, lock, store_vars, log, webhook_posts, env_vars,
                   result, calls>>

\* Lines 122-128: the error rate against alert_thresholds['error_rate'].
record_error_rate(t) ==
    /\ At(t, "record_error", "rate")
    /\ IF "error_rate" \notin DOMAIN alert_thresholds
       THEN /\ Raise(t, "KeyError")
       ELSE /\ lock' = lock
            /\ result' = result
            /\ IF RateExceeds(metrics.error_count, metrics.total_operations,
                              alert_thresholds["error_rate"])
               THEN CallAt(t, "exit",
                           Frame("send_alert", "acquire",
                                 [alert_type |-> "high_error_rate",
                                  data |-> [error_rate |-> Ratio(metrics.error_count,
                                                                 metrics.total_operations),
                                            total_errors |-> metrics.error_count,
                                            total_operations |-> metrics.total_operations]],
                                 NoLocals))
               ELSE Goto(t, "exit")
    /\ UNCHANGED <<config_vars, metrics, alerts, store_vars, log, webhook_posts, env_vars,
                   calls>>

record_error_exit(t) ==
    /\ At(t, "record_error", "exit")
    /\ lock' = 0
    /\ Return(t, None)
    /\ UNCHANGED <<config_vars, metrics, alerts, store_vars, log, webhook_posts, env_vars,
                   calls>>

\* ------------------------------------------------------------------ _check_alert_conditions
\* The comparison written with >= : an observation at the limit would trigger.
Exceeds_at_limit(value, threshold) == value >= threshold

\* The comparison of one observed value with its threshold.
Exceeds(value, threshold) == value > threshold

\* Lines 132-138: the local list `alerts` of (alert_type, value).
Triggers(m, thresholds) ==
    (IF Exceeds(m.latency_ms, thresholds["latency"])
     THEN <<[alert_type |-> "high_latency", value |-> m.latency_ms]>> ELSE <<>>)
    \o
    (IF Exceeds(m.cost_usd, thresholds["cost"])
     THEN <<[alert_type |-> "high_cost", value |-> m.cost_usd]>> ELSE <<>>)

\* The evaluation with an assignment in the place of the latency comparison:
\* the threshold becomes the observation.
_check_alert_conditions_eval_assigning(t) ==
    /\ At(t, "_check_alert_conditions", "eval")
    /\ IF {"latency", "cost"} \subseteq DOMAIN alert_thresholds
       THEN /\ alert_thresholds' = [alert_thresholds EXCEPT !["latency"] = Top(t).args.latency_ms]
            /\ stack' = [stack EXCEPT ![t] =
                           WithTop(@, [Top(t) EXCEPT
                                         !.pc = "loop",
                                         !.loc = [alerts |-> Triggers(Top(t).args,
                                                                      alert_thresholds)]])]
            /\ UNCHANGED <<lock, result>>
       ELSE /\ Raise(t, "KeyError")
            /\ UNCHANGED alert_thresholds
    /\ UNCHANGED <<backend, config_path, manager, app_vars, metrics, alerts, store_vars, log,
                   webhook_posts, env_vars, calls>>

_check_alert_conditions_eval(t) ==
    /\ At(t, "_check_alert_conditions", "eval")
    /\ IF {"latency", "cost"} \subseteq DOMAIN alert_thresholds
       THEN /\ stack' = [stack EXCEPT ![t] =
                           WithTop(@, [Top(t) EXCEPT
                                         !.pc = "loop",
                                         !.loc = [alerts |-> Triggers(Top(t).args,
                                                                      alert_thresholds)]])]
            /\ UNCHANGED <<lock, result>>
       ELSE Raise(t, "KeyError")
    /\ UNCHANGED <<config_vars, metrics, alerts, store_vars, log, webhook_posts, env_vars,
                   calls>>

\* Lines 140-141: one turn of the loop; the argument of send_alert reads
\* self.alert_thresholds[alert_type] before send_alert is called.
_check_alert_conditions_loop(t) ==
    /\ At(t, "_check_alert_conditions", "loop")
    /\ LET todo == Top(t).loc.alerts
       IN IF todo = <<>>
          THEN /\ Return(t, None)
               /\ lock' = lock
          ELSE IF Head(todo).alert_type \notin DOMAIN alert_thresholds
          THEN Raise(t, "KeyError")
          ELSE /\ stack' = [stack EXCEPT ![t] =
                              Append(WithTop(@, [Top(t) EXCEPT !.loc = [alerts |-> Tail(todo)]]),
                                     Frame("send_alert", "acquire",
                                           [alert_type |-> Head(todo).alert_type,
                                            data |-> [value |-> Head(todo).value,
                                                      threshold |->
                                                        alert_thresholds[Head(todo).alert_type]]],
                                           NoLocals))]
               /\ UNCHANGED <<lock, result>>
    /\ UNCHANGED <<config_vars, metrics, alerts, store_vars, log, webhook_posts, env_vars,
                   calls>>

\* ------------------------------------------------------------------ send_alert
\* The lookup with the 'high_cost' entry left out of the map.
severity_map_without_high_cost(alert_type) ==
    CASE alert_type = "high_error_rate" -> "critical"
      [] alert_type = "critical_failure" -> "critical"
      [] alert_type = "high_latency" -> "warning"
      [] OTHER -> "info"

\* severity_map.get(alert_type, 'info')
severity_map(alert_type) ==
    CASE alert_type = "high_error_rate" -> "critical"
      [] alert_type = "critical_failure" -> "critical"
      [] alert_type = "high_latency" -> "warning"
      [] alert_type = "high_cost" -> "warning"
      [] OTHER -> "info"

send_alert_acquire(t) == Acquire(t, "send_alert")

\* The step with the Alert created as already resolved.
send_alert_append_resolved(t) ==
    /\ At(t, "send_alert", "body")
    /\ LET a == Top(t).args
           alert == [timestamp |-> now, alert_type |-> a.alert_type,
                     severity |-> severity_map(a.alert_type), data |-> a.data,
                     resolved |-> TRUE, seq |-> Len(alerts) + 1]
       IN /\ alerts' = Append(alerts, alert)
          /\ stack' = [stack EXCEPT ![t] =
                         WithTop(@, [Top(t) EXCEPT !.pc = "persist", !.loc = [alert |-> alert]])]
    /\ UNCHANGED <<config_vars, metrics, lock, store_vars, log, webhook_posts, env_vars,
                   result, calls>>

\* The step with the warning line written at once, before the store.
send_alert_append_logging_first(t) ==
    /\ At(t, "send_alert", "body")
    /\ LET a == Top(t).args
           alert == [timestamp |-> now, alert_type |-> a.alert_type,
                     severity |-> severity_map(a.alert_type), data |-> a.data,
                     resolved |-> FALSE, seq |-> Len(alerts) + 1]
       IN /\ alerts' = Append(alerts, alert)
          /\ log' = Append(log, LogLine("warning", "ALERT", alert.seq))
          /\ stack' = [stack EXCEPT ![t] =
                         WithTop(@, [Top(t) EXCEPT !.pc = "persist", !.loc = [alert |-> alert]])]
    /\ UNCHANGED <<config_vars, metrics, lock, store_vars, webhook_posts, env_vars,
                   result, calls>>

\* Lines 146-162: the Alert and self.alerts.append(alert).  seq is the place of
\* the alert in self.alerts; it tells the records of one alert from another's.
send_alert_append(t) ==
    /\ At(t, "send_alert", "body")
    /\ LET a == Top(t).args
           alert == [timestamp |-> now, alert_type |-> a.alert_type,
                     severity |-> severity_map(a.alert_type), data |-> a.data,
                     resolved |-> FALSE, seq |-> Len(alerts) + 1]
       IN /\ alerts' = Append(alerts, alert)
          /\ stack' = [stack EXCEPT ![t] =
                         WithTop(@, [Top(t) EXCEPT !.pc = "persist", !.loc = [alert |-> alert]])]
    /\ UNCHANGED <<config_vars, metrics, lock, store_vars, log, webhook_posts, env_vars,
                   result, calls>>

\* MongoDB: save_alert inside try/except.  SQLite: the INSERT, not caught.
send_alert_persist(t) ==
    /\ At(t, "send_alert", "persist")
    /\ LET alert == Top(t).loc.alert
           doc == [alert_type |-> alert.alert_type, severity |-> alert.severity,
                   data |-> IF backend = "sqlite" THEN JsonDumps(alert.data) ELSE alert.data,
                   timestamp |-> IF backend = "sqlite" THEN alert.timestamp ELSE now,
                   resolved |-> FALSE, seq |-> alert.seq]
       IN \E inserted \in BOOLEAN :
            IF inserted
            THEN /\ db_alerts' = Append(db_alerts, doc)
                 /\ log' = log
                 /\ Goto(t, "log")
                 /\ UNCHANGED <<lock, result>>
            ELSE /\ db_alerts' = db_alerts
                 /\ IF backend = "mongodb"
                    THEN /\ log' = log \o
                                   <<LogLine("error", "Failed to save alert", alert.seq),
                                     LogLine("error", "Failed to save alert to MongoDB",
                                             alert.seq)>>
                         /\ Goto(t, "log")
                         /\ UNCHANGED <<lock, result>>
                    ELSE /\ log' = log
                         /\ Raise(t, "sqlite3.Error")
    /\ UNCHANGED <<config_vars, metrics, alerts, telemetry, system_health, webhook_posts,
                   env_vars, calls>>

\* logger.warning(f"ALERT [...] ...")
send_alert_log(t) ==
    /\ At(t, "send_alert", "log")
    /\ log' = Append(log, LogLine("warning", "ALERT", Top(t).loc.alert.seq))
    /\ Goto(t, "webhook")
    /\ UNCHANGED <<config_vars, metrics, alerts, lock, store_vars, webhook_posts, env_vars,
                   result, calls>>

\* The step with a second attempt after a failed POST.
send_alert_webhook_retrying(t) ==
    /\ At(t, "send_alert", "webhook")
    /\ LET alert == Top(t).loc.alert
       IN IF ALERT_WEBHOOK
          THEN \E delivered \in BOOLEAN :
                 /\ webhook_posts' =
                      IF delivered
                      THEN Append(webhook_posts, [json |-> alert, delivered |-> TRUE])
                      ELSE webhook_posts \o <<[json |-> alert, delivered |-> FALSE],
                                              [json |-> alert, delivered |-> TRUE]>>
                 /\ log' = log
          ELSE UNCHANGED <<webhook_posts, log>>
    /\ lock' = 0
    /\ Return(t, None)
    /\ UNCHANGED <<config_vars, metrics, alerts, store_vars, env_vars, calls>>

\* Lines 175-180: os.getenv now, one requests.post with timeout=2 inside
\* try/except, and the end of the `with self.lock:` block.
send_alert_webhook(t) ==
    /\ At(t, "send_alert", "webhook")
    /\ LET alert == Top(t).loc.alert
       IN IF ALERT_WEBHOOK
          THEN \E delivered \in BOOLEAN :
                 /\ webhook_posts' = Append(webhook_posts,
                                            [json |-> alert, delivered |-> delivered])
                 /\ log' = IF delivered THEN log
                           ELSE Append(log, LogLine("error", "Failed to send webhook alert",
                                                    alert.seq))
          ELSE UNCHANGED <<webhook_posts, log>>
    /\ lock' = 0
    /\ Return(t, None)
    /\ UNCHANGED <<config_vars, metrics, alerts, store_vars, env_vars, calls>>

\* ------------------------------------------------------------------ get_system_health
get_system_health_acquire(t) == Acquire(t, "get_system_health")

\* The report that starts the counters again once it is made.
get_system_health_body_resetting(t) ==
    /\ At(t, "get_system_health", "body")
    /\ LET health_data ==
             [uptime_seconds |-> now - metrics.start_time,
              total_operations |-> metrics.total_operations,
              error_count |-> metrics.error_count,
              error_rate |-> Ratio(metrics.error_count, metrics.total_operations),
              avg_latency_ms |-> Ratio(metrics.total_latency, metrics.total_operations),
              total_cost_usd |-> metrics.total_cost,
              active_alerts |-> Cardinality({i \in DOMAIN alerts : ~alerts[i].resolved})]
       IN /\ IF backend = "mongodb"
             THEN \E inserted \in BOOLEAN :
                    IF inserted
                    THEN /\ system_health' = Append(system_health, health_data)
                         /\ log' = log
                    ELSE /\ system_health' = system_health
                         /\ log' = Append(log, LogLine("error", "Failed to save system health", 0))
             ELSE UNCHANGED <<system_health, log>>
          /\ Return(t, [isNone |-> FALSE, items |-> {}, health |-> health_data])
    /\ lock' = 0
    /\ metrics' = [InitMetrics EXCEPT !.start_time = now]
    /\ UNCHANGED <<config_vars, alerts, telemetry, db_alerts, webhook_posts,
                   env_vars, calls>>

get_system_health_body(t) ==
    /\ At(t, "get_system_health", "body")
    /\ LET health_data ==
             [uptime_seconds |-> now - metrics.start_time,
              total_operations |-> metrics.total_operations,
              error_count |-> metrics.error_count,
              error_rate |-> Ratio(metrics.error_count, metrics.total_operations),
              avg_latency_ms |-> Ratio(metrics.total_latency, metrics.total_operations),
              total_cost_usd |-> metrics.total_cost,
              active_alerts |-> Cardinality({i \in DOMAIN alerts : ~alerts[i].resolved})]
       IN /\ IF backend = "mongodb"
             THEN \E inserted \in BOOLEAN :
                    IF inserted
                    THEN /\ system_health' = Append(system_health, health_data)
                         /\ log' = log
                    ELSE /\ system_health' = system_health
                         /\ log' = Append(log, LogLine("error", "Failed to save system health", 0))
             ELSE UNCHANGED <<system_health, log>>
          /\ Return(t, [isNone |-> FALSE, items |-> {}, health |-> health_data])
    /\ lock' = 0
    /\ UNCHANGED <<config_vars, metrics, alerts, telemetry, db_alerts, webhook_posts,
                   env_vars, calls>>

\* ------------------------------------------------------------------ get_recent_alerts
\* The orders "ORDER BY timestamp DESC" / sort("timestamp", DESCENDING) can
\* give the rows: records of one timestamp come in either order.
NewestFirst(rows) ==
    {order \in [DOMAIN rows -> DOMAIN rows] :
        /\ \A i, j \in DOMAIN rows : i # j => order[i] # order[j]
        /\ \A i, j \in DOMAIN rows :
             i < j => rows[order[i]].timestamp >= rows[order[j]].timestamp}

FirstRows(rows, order, limit) ==
    [i \in 1..(IF Len(rows) < limit THEN Len(rows) ELSE limit) |-> rows[order[i]]]

\* MongoDB: mongo.get_alerts(limit), which logs a failed read and returns [].
\* SQLite: the SELECT, whose failure is not caught.  Neither takes the lock.
get_recent_alerts_query(t) ==
    /\ At(t, "get_recent_alerts", "query")
    /\ \E read \in BOOLEAN :
         IF read
         THEN /\ \E order \in NewestFirst(db_alerts) :
                   Return(t, [isNone |-> FALSE, items |-> {},
                              rows |-> FirstRows(db_alerts, order, Top(t).args.limit)])
              /\ UNCHANGED <<lock, log>>
         ELSE IF backend = "mongodb"
         THEN /\ log' = Append(log, LogLine("error", "Failed to get alerts", 0))
              /\ Return(t, [isNone |-> FALSE, items |-> {}, rows |-> <<>>])
              /\ lock' = lock
         ELSE /\ log' = log
              /\ Raise(t, "sqlite3.Error")
    /\ UNCHANGED <<config_vars, metrics, alerts, store_vars, webhook_posts, env_vars, calls>>

\* ------------------------------------------------------------------ get_metrics_summary
SumValues(rows) ==
    LET RECURSIVE Sum(_)
        Sum(n) == IF n = 0 THEN 0 ELSE rows[n].value + Sum(n - 1)
    IN Sum(Len(rows))

MinValue(rows) == CHOOSE v \in {rows[i].value : i \in DOMAIN rows} :
                    \A i \in DOMAIN rows : v <= rows[i].value
MaxValue(rows) == CHOOSE v \in {rows[i].value : i \in DOMAIN rows} :
                    \A i \in DOMAIN rows : v >= rows[i].value

\* The bucket of one metric_type.  MongoDB, lines 227-249: count, sum, min and
\* max over the records seen, and avg = sum / count.  SQLite, lines 229-233:
\* AVG(value) and COUNT(*) of the group.
Bucket(rows) ==
    IF backend = "mongodb"
    THEN [count |-> Len(rows), sum |-> SumValues(rows),
          avg |-> [num |-> SumValues(rows), den |-> Len(rows)],
          min |-> MinValue(rows), max |-> MaxValue(rows)]
    ELSE [avg |-> [num |-> SumValues(rows), den |-> Len(rows)], count |-> Len(rows)]

\* metrics_summary: a bucket for every metric_type that has a record in the
\* scan, and for no other.
MetricsSummary(rows) ==
    [metric_type \in {rows[i].metric_type : i \in DOMAIN rows} |->
        Bucket(SelectSeq(rows, LAMBDA r : r.metric_type = metric_type))]

\* alerts_summary: the number of alerts of every severity that occurs.
AlertsSummary(rows) ==
    [severity \in {rows[i].severity : i \in DOMAIN rows} |->
        Cardinality({i \in DOMAIN rows : rows[i].severity = severity})]

TotalRecords(metrics_summary) ==
    LET RECURSIVE Total(_)
        Total(types) == IF types = {} THEN 0
                        ELSE LET metric_type == CHOOSE x \in types : TRUE
                             IN metrics_summary[metric_type].count
                                + Total(types \ {metric_type})
    IN Total(DOMAIN metrics_summary)

\* The dict returned: MongoDB adds 'total_records' (lines 261-266), SQLite
\* has the three other keys only (lines 242-246).
Summary(metrics_summary, alerts_summary, hours) ==
    IF backend = "mongodb"
    THEN [metrics |-> metrics_summary, alerts |-> alerts_summary, time_range_hours |-> hours,
          total_records |-> TotalRecords(metrics_summary)]
    ELSE [metrics |-> metrics_summary, alerts |-> alerts_summary, time_range_hours |-> hours]

\* A failed read of get_metrics_summary: MongoDB logs it and returns {} (lines
\* 268-270), SQLite lets the error out.
get_metrics_summary_failed(t) ==
    IF backend = "mongodb"
    THEN /\ log' = Append(log, LogLine("error", "Failed to get metrics summary", 0))
         /\ Return(t, Dict({}))
         /\ lock' = lock
    ELSE /\ log' = log
         /\ Raise(t, "sqlite3.Error")

\* cutoff_time and the scan of the metric store, grouped by metric_type.
get_metrics_summary_metrics(t) ==
    /\ At(t, "get_metrics_summary", "metrics")
    /\ LET cutoff_time == now - Top(t).args.hours
       IN \E read \in BOOLEAN :
            IF read
            THEN /\ stack' = [stack EXCEPT ![t] =
                                WithTop(@, [Top(t) EXCEPT
                                              !.pc = "alerts",
                                              !.loc = [cutoff_time |-> cutoff_time,
                                                       metrics_summary |->
                                                         MetricsSummary(
                                                           telemetry_find(cutoff_time))]])]
                 /\ UNCHANGED <<lock, log, result>>
            ELSE get_metrics_summary_failed(t)
    /\ UNCHANGED <<config_vars, metrics, alerts, store_vars, webhook_posts, env_vars, calls>>

\* The scan of the alert store, grouped by severity, and the return.
get_metrics_summary_alerts(t) ==
    /\ At(t, "get_metrics_summary", "alerts")
    /\ \E read \in BOOLEAN :
         IF read
         THEN /\ Return(t, [isNone |-> FALSE, items |-> {},
                            summary |-> Summary(Top(t).loc.metrics_summary,
                                                AlertsSummary(
                                                  db_alerts_find(Top(t).loc.cutoff_time)),
                                                Top(t).args.hours)])
              /\ UNCHANGED <<lock, log>>
         ELSE get_metrics_summary_failed(t)
    /\ UNCHANGED <<config_vars, metrics, alerts, store_vars, webhook_posts, env_vars, calls>>

\* ------------------------------------------------------------------ get_metrics_summary in floating point
MaxLen == 3

\* The values are Python floats: every `+=` and `/` gives the float nearest
\* to the exact result.  Here a float has Digits significant decimal digits
\* (a double has 53 binary ones) and the least float above 0 is 1.
Digits == 2
RECURSIVE Pow10(_)
Pow10(n) == IF n = 0 THEN 1 ELSE 10 * Pow10(n - 1)

\* The distance between two neighbouring floats around n / d.
RECURSIVE Quantum(_, _, _)
Quantum(n, d, q) == IF n < Pow10(Digits) * q * d THEN q ELSE Quantum(n, d, 10 * q)

\* The float nearest to n / d (n >= 0, d > 0), ties to the even one.
RoundRatio(n, d) ==
    LET q == Quantum(n, d, 1)
        k == n \div (d * q)
        r == n - k * d * q
    IN IF 2 * r > d * q \/ (2 * r = d * q /\ k % 2 = 1) THEN (k + 1) * q ELSE k * q

FloatAdd(a, b) == RoundRatio(a + b, 1)
FloatDiv(a, b) == RoundRatio(a, b)

\* float('inf') and float('-inf'): above and below every float of the model.
PosInf == Pow10(Digits + 4)
NegInf == 0 - PosInf
Min(a, b) == IF a <= b THEN a ELSE b

\* The bucket with min starting at 0.0.
NewBucket_min_from_zero == [count |-> 0, sum |-> 0, avg |-> 0, min |-> 0, max |-> NegInf]

\* Lines 231-237: the bucket a metric_type gets when it is first seen.
NewBucket == [count |-> 0, sum |-> 0, avg |-> 0, min |-> PosInf, max |-> NegInf]

\* Lines 239-243: one record added to its bucket.
AddToBucket(bucket, value) ==
    [count |-> bucket.count + 1,
     sum |-> FloatAdd(bucket.sum, value),
     avg |-> bucket.avg,
     min |-> Min(bucket.min, value),
     max |-> Max(bucket.max, value)]

\* Lines 227-243: the loop over the records in the order the cursor gives them.
RECURSIVE ScanMetrics(_, _)
ScanMetrics(metrics_summary, metrics_data) ==
    IF metrics_data = <<>> THEN metrics_summary
    ELSE LET metric == Head(metrics_data)
             bucket == IF metric.metric_type \in DOMAIN metrics_summary
                       THEN metrics_summary[metric.metric_type]
                       ELSE NewBucket
         IN ScanMetrics([metric_type \in DOMAIN metrics_summary \cup {metric.metric_type} |->
                           IF metric_type = metric.metric_type
                           THEN AddToBucket(bucket, metric.value)
                           ELSE metrics_summary[metric_type]],
                        Tail(metrics_data))

\* Lines 246-249: avg = sum / count for the buckets with count > 0.
WithAverages(metrics_summary) ==
    [metric_type \in DOMAIN metrics_summary |->
        LET bucket == metrics_summary[metric_type]
        IN IF bucket.count > 0
           THEN [bucket EXCEPT !.avg = FloatDiv(bucket.sum, bucket.count)]
           ELSE bucket]

Reordered(rows, order) == [i \in DOMAIN rows |-> rows[order[i]]]

call_get_metrics_summary_scan(t) ==
    \E hours \in HoursValues :
        Invoke(t, "get_metrics_summary", "scan", [hours |-> hours])

\* TelemetryManagerMongoDB.get_metrics_summary as one step, with the store
\* readable: find() has no sort, so the cursor gives the records of the
\* window in an order of the store's choosing.
get_metrics_summary_scan(t) ==
    /\ At(t, "get_metrics_summary", "scan")
    /\ backend = "mongodb"
    /\ LET cutoff_time == now - Top(t).args.hours
           found == telemetry_find(cutoff_time)
       IN \E order \in Permutations(DOMAIN found) :
            Return(t, [isNone |-> FALSE, items |-> {},
                       summary |->
                         Summary(WithAverages(ScanMetrics(<<>>, Reordered(found, order))),
                                 AlertsSummary(db_alerts_find(cutoff_time)),
                                 Top(t).args.hours)])
    /\ UNCHANGED <<config_vars, metrics, alerts, lock, store_vars, log, webhook_posts,
                   env_vars, calls>>

\* What record_metric has left in the metric store: latencies and costs, of
\* few and of many digits, some of them older than the window of one hour.
FloatValues == {4, Pow10(Digits) - 1, Pow10(Digits)}
StoredMetrics ==
    [metric_type : {"latency", "cost"}, value : FloatValues, metadata : {Dict({})},
     timestamp : {0 - 2, 0}]
MetricStores ==
    UNION { {rows \in [1..n -> StoredMetrics] :
               \A i \in 1..n : \A j \in 1..n : i < j => rows[i].timestamp <= rows[j].timestamp}
            : n \in 0..MaxLen }

\* The MongoDB manager over a metric store that already has records.
InitSummary ==
    /\ backend = "mongodb"
    /\ config_path = "no path"
    /\ manager = "built"
    /\ alert_thresholds = InitThresholds(_load_config(backend, config_path).config)
    /\ metrics = InitMetrics
    /\ alerts = <<>>
    /\ lock = 0
    /\ telemetry \in MetricStores
    /\ db_alerts = <<>>
    /\ system_health = <<>>
    /\ log = <<>>
    /\ webhook_posts = <<>>
    /\ ALERT_WEBHOOK = FALSE
    /\ now = 0
    /\ stack = [t \in Threads |-> <<>>]
    /\ result = [t \in Threads |-> Idle]
    /\ calls = [t \in Threads |-> <<>>]
    /\ NoApp

NextSummary ==
    \/ \E t \in Threads : call_get_metrics_summary_scan(t)
    \/ \E t \in Threads : get_metrics_summary_scan(t)

\* get_metrics_summary called on stores of up to MaxLen records.
SpecSummary == InitSummary /\ [][NextSummary]_vars

\* ------------------------------------------------------------------ environment
\* Time passes.
Tick ==
    /\ now < MaxClock
    /\ now' = now + 1
    /\ UNCHANGED <<config_vars, metrics, alerts, lock, store_vars, log, webhook_posts,
                   ALERT_WEBHOOK, stack, result, calls>>

\* The operator sets or unsets ALERT_WEBHOOK in the process environment.
SetEnv ==
    /\ ALERT_WEBHOOK' = ~ALERT_WEBHOOK
    /\ UNCHANGED <<config_vars, metrics, alerts, lock, store_vars, log, webhook_posts,
                   now, stack, result, calls>>

\* ------------------------------------------------------------------ app_mongodb.py
manager_vars == <<backend, config_path, manager, alert_thresholds>>

\* What the model answers for a frame, as far as the code looks at the text:
\* whether it holds one of 'theft', 'steal', 'rob', 'suspicious' (in any
\* case) and whether it holds "Yes".
Answers == { [theft_word |-> FALSE, yes |-> FALSE],
             [theft_word |-> TRUE, yes |-> FALSE],
             [theft_word |-> TRUE, yes |-> TRUE] }
\* (tokens_in + tokens_out) * 0.0005, at and above the limit of line 241.
AnalysisCosts == {5, 6}
EvalLabels == {"CORRECT", "ERROR"}

\* `"alert" in event_type.lower()` for the event types the application passes.
HasAlertInName(event_type) == event_type \in {"high_cost_alert", "high_latency_alert"}

\* log_event(event_type, data): MongoDBHandler.save_alert with the severity
\* computed here; a failed insert is logged by the handler and by log_event.
\* seq is 0: the document belongs to no Alert of a manager's self.alerts.
log_event(event_type, data, inserted) ==
    LET severity == IF HasAlertInName(event_type) THEN "warning" ELSE "info"
        alert_data == [alert_type |-> event_type, severity |-> severity, data |-> data,
                       timestamp |-> now, resolved |-> FALSE, seq |-> 0]
    IN /\ db_alerts' = IF inserted THEN Append(db_alerts, alert_data) ELSE db_alerts
       /\ log' = IF inserted THEN log
                 ELSE log \o <<LogLine("error", "Failed to save alert", 0),
                                LogLine("error", "Failed to save alert", 0)>>

\* process_video_safe_mongo, lines 285-299: every 30th frame is written to a
\* file named after the time and a thread is started on analyze_image_mongo.
\* image_path stands for the frame: <<thread, number of the call>>.
call_analyze_image_mongo(t) ==
    Invoke(t, "analyze_image_mongo", "enter", [image_path |-> <<t, Len(calls[t]) + 1>>])

\* Lines 185-237: the early returns, the request to the model and telemetry_data.
\* cv2.imwrite may have written nothing; gemini_model.invoke may raise.
analyze_image_mongo_invoke(t) ==
    /\ At(t, "analyze_image_mongo", "enter")
    /\ IF ~gemini_model
       THEN /\ Return(t, Str("AI analysis disabled - no API key"))
            /\ log' = log
       ELSE \E readable \in BOOLEAN, answered \in BOOLEAN :
              IF ~readable
              THEN /\ log' = Append(log, LogLine("error", "Image file not found", 0))
                   /\ Return(t, Str("Error: Image file not found"))
              ELSE IF ~answered
              THEN /\ log' = Append(log, LogLine("error", "Analysis failed", 0))
                   /\ Return(t, Str("Error"))
              ELSE \E answer \in Answers, latency_ms \in LatencyValues,
                      cost_usd \in AnalysisCosts :
                     /\ log' = log
                     /\ result' = result
                     /\ stack' = [stack EXCEPT ![t] =
                                    WithTop(@, [Top(t) EXCEPT
                                                  !.pc = "cost_alert",
                                                  !.loc = [observation |-> answer,
                                                           theft_detected |-> answer.theft_word,
                                                           latency_ms |-> latency_ms,
                                                           cost_usd |-> cost_usd,
                                                           observation_id |-> 0]])]
    /\ UNCHANGED <<manager_vars, app_vars, metrics, alerts, lock, store_vars, webhook_posts,
                   env_vars, calls>>

\* Lines 241-242: if cost_usd > 0.005: log_event("high_cost_alert", ...)
analyze_image_mongo_cost_alert(t) ==
    /\ At(t, "analyze_image_mongo", "cost_alert")
    /\ IF Top(t).loc.cost_usd > 5
       THEN \E inserted \in BOOLEAN :
              log_event("high_cost_alert",
                        [cost |-> Top(t).loc.cost_usd, image_path |-> Top(t).args.image_path],
                        inserted)
       ELSE UNCHANGED <<db_alerts, log>>
    /\ Goto(t, "latency_alert")
    /\ UNCHANGED <<manager_vars, app_vars, metrics, alerts, lock, telemetry, system_health,
                   webhook_posts, env_vars, result, calls>>

\* Lines 243-244: if telemetry_data['latency_ms'] > 3000: log_event("high_latency_alert", ...)
analyze_image_mongo_latency_alert(t) ==
    /\ At(t, "analyze_image_mongo", "latency_alert")
    /\ IF Top(t).loc.latency_ms > 3000
       THEN \E inserted \in BOOLEAN :
              log_event("high_latency_alert",
                        [latency |-> Top(t).loc.latency_ms,
                         image_path |-> Top(t).args.image_path],
                        inserted)
       ELSE UNCHANGED <<db_alerts, log>>
    /\ Goto(t, "save")
    /\ UNCHANGED <<manager_vars, app_vars, metrics, alerts, lock, telemetry, system_health,
                   webhook_posts, env_vars, result, calls>>

\* The value analyze_image_mongo returns after the request succeeded.
Analysis(loc) == [isNone |-> FALSE, items |-> {}, observation |-> loc.observation,
                  telemetry_data |-> [latency_ms |-> loc.latency_ms, cost_usd |-> loc.cost_usd]]

\* Lines 246-254 with save_observation_with_eval_mongo: only when
\* theft_detected, one document with eval_result None and no human_feedback
\* field; a failed insert is logged twice and "" (here 0) is the id.
analyze_image_mongo_save(t) ==
    /\ At(t, "analyze_image_mongo", "save")
    /\ LET loc == Top(t).loc
           observation_data == [_id |-> Len(observations) + 1,
                                image_path |-> Top(t).args.image_path,
                                observation |-> loc.observation,
                                theft_detected |-> loc.theft_detected,
                                eval_result |-> "None",
                                human_feedback |-> "absent",
                                timestamp |-> now]
       IN IF ~loc.theft_detected
          THEN /\ Return(t, Analysis(loc))
               /\ UNCHANGED <<observations, log>>
          ELSE \E inserted \in BOOLEAN :
                 /\ observations' = IF inserted THEN Append(observations, observation_data)
                                    ELSE observations
                 /\ log' = IF inserted THEN log
                           ELSE log \o <<LogLine("error", "Failed to save observation", 0),
                                          LogLine("error", "Failed to save observation with eval",
                                                  0)>>
                 /\ LET observation_id == IF inserted THEN observation_data._id ELSE 0
                    IN IF loc.observation.yes
                       THEN /\ result' = result
                            /\ stack' = [stack EXCEPT ![t] =
                                           WithTop(@, [Top(t) EXCEPT
                                                         !.pc = "eval",
                                                         !.loc.observation_id = observation_id])]
                       ELSE Return(t, Analysis(loc))
    /\ UNCHANGED <<manager_vars, gemini_model, session_state, sqlite_db, _instance, instances,
                   metrics, alerts, lock, store_vars, webhook_posts, env_vars, calls>>

\* MongoDBHandler.update_observation: {"$set": update_data} on the document
\* with this _id.  ObjectId("") raises InvalidId, which the callers catch; a
\* PyMongoError gives False; so does an update that matches no document.
update_observation(collection, observation_id, field, value, written) ==
    IF written /\ observation_id \in DOMAIN collection
    THEN [collection EXCEPT ![observation_id] = [@ EXCEPT ![field] = value]]
    ELSE collection

\* Lines 257-259: evaluate_response (one more request to the model, "ERROR"
\* when it fails) and update_observation_eval_mongo.
analyze_image_mongo_eval(t) ==
    /\ At(t, "analyze_image_mongo", "eval")
    /\ \E eval_label \in EvalLabels, written \in BOOLEAN :
         LET observation_id == Top(t).loc.observation_id
         IN /\ observations' = update_observation(observations, observation_id,
                                                  "eval_result", eval_label, written)
            /\ log' = IF observations' # observations THEN log
                      ELSE IF observation_id = 0
                      THEN Append(log, LogLine("error", "Failed to update observation", 0))
                      ELSE IF ~written
                      THEN Append(log, LogLine("error", "Failed to update observation", 0))
                      ELSE log
            /\ stack' = [stack EXCEPT ![t] =
                           WithTop(@, [Top(t) EXCEPT
                                         !.pc = "eval_event",
                                         !.loc = Top(t).loc @@ [eval_label |-> eval_label]])]
    /\ UNCHANGED <<manager_vars, gemini_model, session_state, sqlite_db, _instance, instances,
                   metrics, alerts, lock, store_vars, webhook_posts, env_vars, result, calls>>

\* Line 260: log_event("llm_eval", {"id": observation_id, "eval": eval_label})
analyze_image_mongo_eval_event(t) ==
    /\ At(t, "analyze_image_mongo", "eval_event")
    /\ \E inserted \in BOOLEAN :
         log_event("llm_eval",
                   [id |-> Top(t).loc.observation_id, eval |-> Top(t).loc.eval_label],
                   inserted)
    /\ Return(t, Analysis(Top(t).loc))
    /\ UNCHANGED <<manager_vars, app_vars, metrics, alerts, lock, telemetry, system_health,
                   webhook_posts, env_vars, calls>>

\* The thread that runs the script of the one browser session.
ScriptThread == 1
Verdicts == {"Correct", "False Positive"}

\* What a run of the feedback page leaves on the screen, and the document it
\* was about (0 for none).
Screen(message, selected) ==
    [isNone |-> FALSE, items |-> {}, message |-> message, selected |-> selected]

\* The filter of feedback_system_mongo, lines 330-337, sorted by timestamp in
\* descending order, limit 10 (documents of one timestamp in either order;
\* here the later insertion first).
NeedsFeedback(doc) == doc.theft_detected /\ doc.human_feedback \in {"absent", "None", ""}
ReviewList ==
    LET ids == {i \in DOMAIN observations : NeedsFeedback(observations[i])}
        RECURSIVE Sorted(_)
        Sorted(rest) ==
            IF rest = {} THEN <<>>
            ELSE LET first == CHOOSE i \in rest :
                                \A j \in rest :
                                   \/ observations[i].timestamp > observations[j].timestamp
                                   \/ /\ observations[i].timestamp = observations[j].timestamp
                                      /\ i >= j
                 IN <<first>> \o Sorted(rest \ {first})
    IN SubSeq(Sorted(ids), 1, IF Cardinality(ids) > 10 THEN 10 ELSE Cardinality(ids))

\* One run of the script on the feedback page: what the user has selected in
\* the select box and the radio, and whether the run is the one that the
\* "Submit Feedback" button started.
call_feedback_system_mongo(t) ==
    /\ t = ScriptThread
    /\ \E choice \in {"first", "last"}, feedback \in Verdicts, submitted \in BOOLEAN :
         Invoke(t, "feedback_system_mongo", "enter",
                [choice |-> choice, feedback |-> feedback, submitted |-> submitted])

\* Lines 325-376: the flag is created, the list is read and shown, and the
\* branch under `if submitted and not st.session_state.feedback_submitted`.
feedback_system_mongo_show(t) ==
    /\ At(t, "feedback_system_mongo", "enter")
    /\ LET a == Top(t).args
           feedback_submitted == IF "feedback_submitted" \notin session_state.keys THEN FALSE
                                 ELSE session_state.feedback_submitted
           selected == IF a.choice = "first" THEN ReviewList[1]
                       ELSE ReviewList[Len(ReviewList)]
       IN /\ session_state' = [keys |-> session_state.keys \cup {"feedback_submitted"},
                               feedback_submitted |-> feedback_submitted]
          /\ IF ReviewList = <<>>
             THEN Return(t, Screen("No observations requiring feedback found", 0))
             ELSE IF a.submitted /\ ~feedback_submitted
             THEN /\ result' = result
                  /\ stack' = [stack EXCEPT ![t] =
                                 WithTop(@, [Top(t) EXCEPT !.pc = "update",
                                                           !.loc = [selected |-> selected]])]
             ELSE Return(t, Screen("form", selected))
    /\ UNCHANGED <<manager_vars, gemini_model, observations, sqlite_db, _instance, instances,
                   metrics, alerts, lock, store_vars, log, webhook_posts, env_vars, calls>>

\* Lines 377-405: update_observation, then record_metric("human_feedback", 1, ...)
\* on the manager when the update succeeded.
feedback_system_mongo_update(t) ==
    /\ At(t, "feedback_system_mongo", "update")
    /\ LET a == Top(t).args
           selected == Top(t).loc.selected
       IN \E written \in BOOLEAN :
            /\ observations' = update_observation(observations, selected, "human_feedback",
                                                  a.feedback, written)
            /\ IF written
               THEN /\ log' = log
                    /\ result' = result
                    /\ CallAt(t, "submitted",
                              Frame("record_metric", "enter",
                                    [metric_type |-> "human_feedback", value |-> 1,
                                     metadata |-> Dict({<<"observation_id", selected>>,
                                                        <<"verdict", a.feedback>>})],
                                    NoLocals))
               ELSE /\ log' = Append(log, LogLine("error", "Failed to update observation", 0))
                    /\ Return(t, Screen("Failed to save feedback", selected))
    /\ UNCHANGED <<manager_vars, gemini_model, session_state, sqlite_db, _instance, instances,
                   metrics, alerts, lock, store_vars, webhook_posts, env_vars, calls>>

\* Lines 401-402: st.session_state.feedback_submitted = True and st.success.
\* Nothing in app_mongodb.py sets the flag back to False.
feedback_system_mongo_submitted(t) ==
    /\ At(t, "feedback_system_mongo", "submitted")
    /\ session_state' = [session_state EXCEPT !.feedback_submitted = TRUE]
    /\ Return(t, Screen("Feedback submitted successfully!", Top(t).loc.selected))
    /\ UNCHANGED <<manager_vars, gemini_model, observations, sqlite_db, _instance, instances,
                   metrics, alerts, lock, store_vars, log, webhook_posts, env_vars, calls>>

\* The documents that earlier runs of the application have left in
\* mongo.observations: none, or two detections that nobody has reviewed.
StoredObservations ==
    { <<>>,
      << [_id |-> 1, image_path |-> <<0, 1>>, observation |-> [theft_word |-> TRUE, yes |-> TRUE],
          theft_detected |-> TRUE, eval_result |-> "CORRECT", human_feedback |-> "absent",
          timestamp |-> 0],
         [_id |-> 2, image_path |-> <<0, 2>>, observation |-> [theft_word |-> TRUE, yes |-> FALSE],
          theft_detected |-> TRUE, eval_result |-> "None", human_feedback |-> "absent",
          timestamp |-> 0] >> }

\* app_mongodb.py after its imports: the manager of the accessor (MongoDB, no
\* configuration file), the model or None, a new session.
InitApp ==
    /\ Fresh
    /\ backend = "mongodb"
    /\ config_path = "no path"
    /\ manager = "built"
    /\ alert_thresholds = InitThresholds(_load_config(backend, config_path).config)
    /\ ALERT_WEBHOOK = FALSE
    /\ gemini_model \in BOOLEAN
    /\ observations \in StoredObservations
    /\ session_state = NewSession
    /\ sqlite_db = EmptyDatabase
    /\ _instance = NoInstances
    /\ instances = NoInstances

StepApp(t) ==
    \/ analyze_image_mongo_invoke(t)
    \/ analyze_image_mongo_cost_alert(t)
    \/ analyze_image_mongo_latency_alert(t)
    \/ analyze_image_mongo_save(t)
    \/ analyze_image_mongo_eval(t)
    \/ analyze_image_mongo_eval_event(t)
    \/ feedback_system_mongo_show(t)
    \/ feedback_system_mongo_update(t)
    \/ feedback_system_mongo_submitted(t)
    \/ record_metric_mongodb(t)

CallApp(t) ==
    \/ call_analyze_image_mongo(t)
    \/ call_feedback_system_mongo(t)

NextApp ==
    \/ \E t \in Threads : CallApp(t)
    \/ \E t \in Threads : StepApp(t)

\* The MongoDB application: frames being analyzed and the feedback page.
SpecApp == InitApp /\ [][NextApp]_vars

\* ------------------------------------------------------------------ app.py: the schema
MaxRuns == 4
MaxRows == 1

Column(name, type) == [name |-> name, type |-> type]
Names(columns) == {columns[i].name : i \in DOMAIN columns}

\* The columns every version of the observations table has had.
BaseColumns ==
    <<Column("id", "INTEGER"), Column("timestamp", "TEXT"), Column("observation", "TEXT"),
      Column("image_path", "TEXT")>>

\* upgrade_database, lines 60-90: the columns it adds, in its order, with its types.
UpgradeColumns ==
    <<Column("human_feedback", "TEXT"), Column("model_version", "TEXT"),
      Column("latency_ms", "REAL"), Column("tokens_in", "INTEGER"),
      Column("tokens_out", "INTEGER"), Column("cost_usd", "REAL"),
      Column("theft_detected", "BOOLEAN"), Column("eval_result", "TEXT")>>

\* init_db, lines 115-127: CREATE TABLE IF NOT EXISTS observations (...)
CreatedColumns ==
    BaseColumns \o
    <<Column("latency_ms", "REAL"), Column("tokens_in", "INTEGER"),
      Column("tokens_out", "INTEGER"), Column("cost_usd", "REAL"),
      Column("theft_detected", "BOOLEAN"), Column("eval_result", "TEXT"),
      Column("human_feedback", "TEXT"), Column("model_version", "TEXT")>>

\* init_db, line 135: missing_columns, each added as TEXT.
missing_columns ==
    <<"human_feedback", "model_version", "latency_ms", "tokens_in", "tokens_out", "cost_usd",
      "theft_detected", "eval_result">>

\* ALTER TABLE observations ADD COLUMN: the rows there are get NULL in it.
AddColumn(table, column) ==
    [table EXCEPT !.columns = Append(@, column),
                  !.rows = [i \in DOMAIN @ |-> @[i] @@ (column.name :> "NULL")]]

\* The ALTER statements of a run, one after the other: every column of
\* wanted, in order, whose name PRAGMA table_info did not list.
RECURSIVE AddMissing(_, _, _)
AddMissing(table, wanted, listed) ==
    IF wanted = <<>> THEN table
    ELSE AddMissing(IF Head(wanted).name \in listed THEN table
                    ELSE AddColumn(table, Head(wanted)),
                    Tail(wanted), listed)

\* A run of the script (Streamlit runs the whole of app.py again on every
\* interaction) reaches a function of the schema.
Run(fn) ==
    /\ Len(calls[ScriptThread]) < MaxRuns
    /\ calls' = [calls EXCEPT ![ScriptThread] = Append(@, [fn |-> fn, args |-> NoArgs])]

\* upgrade_database(): PRAGMA table_info lists nothing for a table that does
\* not exist, so the first ALTER TABLE fails with "no such table"; the
\* except logs it and the function ends, before CREATE TABLE IF NOT EXISTS
\* performance_metrics.  sqlite3 runs every ALTER outside a transaction.
upgrade_database ==
    /\ Run("upgrade_database")
    /\ LET table == sqlite_db.observations
           listed == Names(table.columns)
           missing == {i \in DOMAIN UpgradeColumns : UpgradeColumns[i].name \notin listed}
       IN IF ~table.exists /\ missing # {}
          THEN /\ sqlite_db' = sqlite_db
               /\ log' = Append(log, LogLine("error", "Database upgrade failed", 0))
          ELSE /\ sqlite_db' = [observations |-> AddMissing(table, UpgradeColumns, listed),
                                performance_metrics |-> TRUE]
               /\ log' = log
    /\ UNCHANGED <<manager_vars, gemini_model, observations, session_state, _instance, instances,
                   metrics, alerts, lock, store_vars, webhook_posts, env_vars, stack, result>>

\* init_db(): CREATE TABLE IF NOT EXISTS observations, then every name of
\* missing_columns that the table does not have is added as TEXT.
init_db ==
    /\ Run("init_db")
    /\ LET table == IF sqlite_db.observations.exists THEN sqlite_db.observations
                    ELSE [exists |-> TRUE, columns |-> CreatedColumns, rows |-> <<>>]
           wanted == [i \in DOMAIN missing_columns |-> Column(missing_columns[i], "TEXT")]
       IN sqlite_db' = [sqlite_db EXCEPT
                          !.observations = AddMissing(table, wanted, Names(table.columns))]
    /\ UNCHANGED <<manager_vars, gemini_model, observations, session_state, _instance, instances,
                   metrics, alerts, lock, store_vars, log, webhook_posts, env_vars, stack,
                   result>>

\* save_observation_with_eval of app.py, lines 252-274: one INSERT that names
\* nine columns; it fails, and is logged, when the table or one of them is
\* not there.  The other columns of the row are NULL.
InsertColumns ==
    {"timestamp", "observation", "image_path", "latency_ms", "tokens_in", "tokens_out",
     "cost_usd", "theft_detected", "eval_result"}
save_observation_with_eval ==
    /\ Len(sqlite_db.observations.rows) < MaxRows
    /\ LET table == sqlite_db.observations
           row == [name \in Names(table.columns) |->
                     IF name = "id" THEN Len(table.rows) + 1
                     ELSE IF name \in InsertColumns /\ name # "eval_result" THEN "value"
                     ELSE "NULL"]
       IN IF table.exists /\ InsertColumns \subseteq Names(table.columns)
          THEN /\ sqlite_db' = [sqlite_db EXCEPT !.observations.rows = Append(@, row)]
               /\ log' = log
          ELSE /\ sqlite_db' = sqlite_db
               /\ log' = Append(log, LogLine("error", "Failed to save observation", 0))
    /\ Len(log') <= MaxRuns
    /\ UNCHANGED <<manager_vars, gemini_model, observations, session_state, _instance, instances,
                   metrics, alerts, lock, store_vars, webhook_posts, env_vars, stack, result,
                   calls>>

\* A table of an earlier version of the application: the base columns and
\* some of the later ones, in the order the upgrades add them.
RECURSIVE Picked(_, _)
Picked(columns, names) ==
    IF columns = <<>> THEN <<>>
    ELSE (IF Head(columns).name \in names THEN <<Head(columns)>> ELSE <<>>)
         \o Picked(Tail(columns), names)
LegacyColumnSets == {{}, {"eval_result"}, {"latency_ms", "tokens_in", "tokens_out", "cost_usd"},
                     {"human_feedback", "model_version"}, Names(UpgradeColumns)}
Databases ==
    {EmptyDatabase} \cup
    { [observations |-> [exists |-> TRUE,
                         columns |-> BaseColumns \o Picked(UpgradeColumns, names),
                         rows |-> <<>>],
       performance_metrics |-> FALSE] : names \in LegacyColumnSets }

\* app.py about to be run on a database file: a new one, or one that an
\* earlier version has left.
InitSchema ==
    /\ Fresh
    /\ backend = "sqlite"
    /\ config_path = "no path"
    /\ manager = "built"
    /\ alert_thresholds = InitThresholds(_load_config(backend, config_path).config)
    /\ ALERT_WEBHOOK = FALSE
    /\ gemini_model = TRUE
    /\ observations = <<>>
    /\ session_state = NewSession
    /\ sqlite_db \in Databases
    /\ _instance = NoInstances
    /\ instances = NoInstances

NextSchema ==
    \/ upgrade_database
    \/ init_db
    \/ save_observation_with_eval

\* The schema of robust_telemetry.db under the runs of app.py.
SpecSchema == InitSchema /\ [][NextSchema]_vars

\* ------------------------------------------------------------------ the accessors
call_accessor(t) ==
    \E accessor \in Accessors : Invoke(t, accessor, "check", NoArgs)

\* `if _telemetry_manager_mongodb is None:` (line 319; SQLite 254; handler
\* 330).  No lock is taken here or anywhere in the accessor.
accessor_check(t) ==
    /\ \E accessor \in Accessors :
         /\ At(t, accessor, "check")
         /\ Goto(t, IF _instance[accessor] # 0 THEN "return"
                    ELSE IF accessor = "get_telemetry_manager_mongodb" THEN "init"
                    ELSE "construct")
    /\ UNCHANGED <<manager_vars, app_vars, metrics, alerts, lock, store_vars, log,
                   webhook_posts, env_vars, result, calls>>

\* TelemetryManagerMongoDB.__init__, line 56: self.mongo = get_mongo_handler()
accessor_init(t) ==
    /\ At(t, "get_telemetry_manager_mongodb", "init")
    /\ CallAt(t, "construct", Frame("get_mongo_handler", "check", NoArgs, NoLocals))
    /\ UNCHANGED <<manager_vars, app_vars, metrics, alerts, lock, store_vars, log,
                   webhook_posts, env_vars, result, calls>>

\* The constructor ends and its object is assigned to the global.
\* MongoDBHandler() raises when the server does not answer (lines 54-59),
\* TelemetryManager() when the database file cannot be used.
accessor_construct(t) ==
    /\ \E accessor \in Accessors :
         /\ At(t, accessor, "construct")
         /\ \E built \in BOOLEAN :
              IF built \/ accessor = "get_telemetry_manager_mongodb"
              THEN /\ instances' = [instances EXCEPT ![accessor] = @ + 1]
                   /\ _instance' = [_instance EXCEPT ![accessor] = instances[accessor] + 1]
                   /\ Goto(t, "return")
                   /\ UNCHANGED <<lock, result>>
              ELSE /\ UNCHANGED <<instances, _instance>>
                   /\ Raise(t, "ConnectionFailure")
    /\ UNCHANGED <<manager_vars, gemini_model, observations, session_state, sqlite_db, metrics,
                   alerts, store_vars, log, webhook_posts, env_vars, calls>>

\* `return _telemetry_manager_mongodb`: the global as it is now.
accessor_return(t) ==
    /\ \E accessor \in Accessors :
         /\ At(t, accessor, "return")
         /\ Return(t, [isNone |-> FALSE, items |-> {}, instance |-> _instance[accessor]])
    /\ UNCHANGED <<manager_vars, app_vars, metrics, alerts, lock, store_vars, log,
                   webhook_posts, env_vars, calls>>

\* The process after the imports, before anybody has asked for an instance.
InitAccessor ==
    /\ Fresh
    /\ backend = "mongodb"
    /\ config_path = "no path"
    /\ manager = "none"
    /\ alert_thresholds = [unset |-> TRUE]
    /\ ALERT_WEBHOOK = FALSE
    /\ NoApp

NextAccessor ==
    \/ \E t \in Threads : call_accessor(t)
    \/ \E t \in Threads : accessor_check(t)
    \/ \E t \in Threads : accessor_init(t)
    \/ \E t \in Threads : accessor_construct(t)
    \/ \E t \in Threads : accessor_return(t)

\* Threads asking the accessors for the global instances.
SpecAccessor == InitAccessor /\ [][NextAccessor]_vars

\* ------------------------------------------------------------------ specification
Step(t) ==
    \/ record_metric_mongodb(t)
    \/ record_metric_acquire(t)
    \/ record_metric_insert(t)
    \/ record_operation_acquire(t)
    \/ record_operation_update(t)
    \/ record_operation_latency_metric(t)
    \/ record_operation_cost_metric(t)
    \/ record_operation_check(t)
    \/ record_operation_exit(t)
    \/ record_error_acquire(t)
    \/ record_error_update(t)
    \/ record_error_rate(t)
    \/ record_error_exit(t)
    \/ _check_alert_conditions_eval(t)
    \/ _check_alert_conditions_loop(t)
    \/ send_alert_acquire(t)
    \/ send_alert_append(t)
    \/ send_alert_persist(t)
    \/ send_alert_log(t)
    \/ send_alert_webhook(t)
    \/ get_system_health_acquire(t)
    \/ get_system_health_body(t)
    \/ get_recent_alerts_query(t)
    \/ get_metrics_summary_metrics(t)
    \/ get_metrics_summary_alerts(t)

Call(t) ==
    \/ call_record_operation(t)
    \/ call_record_error(t)
    \/ call_record_metric(t)
    \/ call_send_alert(t)
    \/ call_get_system_health(t)
    \/ call_get_recent_alerts(t)
    \/ call_get_metrics_summary(t)

Next ==
    \/ \E t \in Threads : Call(t)
    \/ \E t \in Threads : Step(t)
    \/ SetEnv

\* The manager and its callers within one hour of the clock.
Spec == Init /\ [][Next]_vars

NextTimed ==
    \/ Next
    \/ Tick

\* The same, with the clock moving.
SpecTimed == Init /\ [][NextTimed]_vars

NextConstruct ==
    \/ __init__
    \/ manager = "built" /\ Next

\* The same, from before the constructor runs.
SpecConstruct == InitConstruct /\ [][NextConstruct]_vars

\* ------------------------------------------------------------------ vocabulary of the claims
LastCall(t) == calls[t][Len(calls[t])]
\* The latest API call of t has come back to its caller, one way or the other.
Over(t) == result[t].status \in {"returned", "raised"}
\* No thread inside a call can take a step.
AtRest == \A t \in Threads : ~ENABLED Step(t)
FailedOperation(c) == c.fn = "record_operation" /\ ~c.args.success
AlertsOfType(alert_type) == {i \in DOMAIN alerts : alerts[i].alert_type = alert_type}
Frames == UNION {{t} \X DOMAIN stack[t] : t \in Threads}

\* C1: N concurrent callers of record_operation(success=False) on a fresh
\* manager leave error_count = N and total_operations = N: when nothing can move
\* any more, every call has returned and both counters are N.
C1_ConcurrentFailuresCounted ==
    ( /\ \A t \in Threads : Len(calls[t]) = 1 /\ FailedOperation(calls[t][1])
      /\ AtRest )
    => /\ \A t \in Threads : result[t].status = "returned"
       /\ metrics.error_count = NThreads
       /\ metrics.total_operations = NThreads

\* C2: in every reachable state error_count <= total_operations.
C2_ErrorsWithinOperations == metrics.error_count <= metrics.total_operations

\* C3: no call blocks for ever: while some call is in progress, some thread
\* inside a call can take its next step.
C3_CallsCanProceed ==
    (\E t \in Threads : stack[t] # <<>>) => (\E t \in Threads : ENABLED Step(t))

\* C4: no API call ends by raising an error into its caller.
C4_NothingRaised == \A t \in Threads : result[t].status # "raised"

\* C5: one record_operation whose latency_ms is above the latency threshold
\* produces exactly one high_latency alert, with data.value = latency_ms and
\* data.threshold = the latency threshold: once the call is over, the alert is
\* there.
C5_OneHighLatencyAlert ==
    \A t \in Threads :
        ( /\ CallsMade = 1
          /\ Len(calls[t]) = 1
          /\ calls[t][1].fn = "record_operation"
          /\ calls[t][1].args.latency_ms > alert_thresholds["latency"]
          /\ Over(t) )
        => /\ Cardinality(AlertsOfType("high_latency")) = 1
           /\ \A i \in AlertsOfType("high_latency") :
                /\ alerts[i].data.value = calls[t][1].args.latency_ms
                /\ alerts[i].data.threshold = alert_thresholds["latency"]

\* C6: a cost_usd at or below the cost threshold gives no high_cost alert: the
\* evaluation of such an observation lists no high_cost trigger, and every
\* high_cost alert raised for an observation carries a value strictly above
\* the threshold.
C6_NoHighCostAtOrBelow ==
    /\ \A p \in Frames :
         LET f == stack[p[1]][p[2]]
         IN /\ ( /\ f.fn = "_check_alert_conditions"
                 /\ f.pc = "loop"
                 /\ f.args.cost_usd <= alert_thresholds["cost"] )
               => \A j \in DOMAIN f.loc.alerts : f.loc.alerts[j].alert_type # "high_cost"
            /\ ( /\ f.fn = "send_alert"
                 /\ f.args.alert_type = "high_cost"
                 /\ "value" \in DOMAIN f.args.data )
               => f.args.data.value > alert_thresholds["cost"]
    /\ \A i \in AlertsOfType("high_cost") :
         "value" \in DOMAIN alerts[i].data => alerts[i].data.value > alert_thresholds["cost"]

\* A record_operation with cost_usd equal to the threshold has returned and
\* there is no high_cost alert.
C6_Witness ==
    \E t \in Threads :
        /\ result[t].status = "returned"
        /\ LastCall(t).fn = "record_operation"
        /\ LastCall(t).args.cost_usd = alert_thresholds["cost"]
        /\ AlertsOfType("high_cost") = {}

\* C7: after N >= 1 failed record_operation calls and nothing else, with an
\* error_rate threshold below 1.0, the calls have returned, error_count =
\* total_operations = N and exactly N high_error_rate alerts have been raised.
C7_OneRateAlertPerFailure ==
    ( /\ CallsMade >= 1
      /\ \A t \in Threads : \A i \in DOMAIN calls[t] : FailedOperation(calls[t][i])
      /\ alert_thresholds["error_rate"] < 1000
      /\ AtRest )
    => /\ \A t \in Threads : stack[t] = <<>>
       /\ metrics.error_count = CallsMade
       /\ metrics.total_operations = CallsMade
       /\ Cardinality(AlertsOfType("high_error_rate")) = CallsMade

\* C8: the severity of an alert is decided by its alert_type alone, in the
\* memory list, in the alert store and in the webhook payload.
SeverityTable(alert_type) ==
    IF alert_type \in {"high_error_rate", "critical_failure"} THEN "critical"
    ELSE IF alert_type \in {"high_latency", "high_cost"} THEN "warning"
    ELSE "info"

C8_SeverityByType ==
    /\ \A i \in DOMAIN alerts : alerts[i].severity = SeverityTable(alerts[i].alert_type)
    /\ \A i \in DOMAIN db_alerts : db_alerts[i].severity = SeverityTable(db_alerts[i].alert_type)
    /\ \A i \in DOMAIN webhook_posts :
         webhook_posts[i].json.severity = SeverityTable(webhook_posts[i].json.alert_type)

\* An alert of an unknown type and a high_cost alert have both been raised.
C8_Witness ==
    \E i, j \in DOMAIN alerts :
        /\ alerts[i].alert_type = "disk_full" /\ alerts[i].severity = "info"
        /\ alerts[j].alert_type = "high_cost" /\ alerts[j].severity = "warning"
        /\ \E k \in DOMAIN db_alerts : db_alerts[k].alert_type = "high_cost"

\* C9: the side effects of one alert do not depend on each other's success:
\* once send_alert is over for an alert of the memory list, its warning line
\* has been logged, whatever became of its write to the alert store.
SendAlertInProgress(seq) ==
    \E p \in Frames :
        LET f == stack[p[1]][p[2]]
        IN f.fn = "send_alert" /\ "alert" \in DOMAIN f.loc /\ f.loc.alert.seq = seq

C9_EffectsIndependent ==
    \A i \in DOMAIN alerts :
        ~SendAlertInProgress(alerts[i].seq)
        => \E l \in DOMAIN log : log[l].level = "warning" /\ log[l].seq = alerts[i].seq

\* C10: after one successful record_metric on an empty store, the scan of the
\* last hour returns exactly one record, with the metric_type, the value and
\* the metadata entries that were written.
StoredEntries(metadata) ==
    IF backend = "sqlite" THEN JsonLoads(metadata).items ELSE metadata.items

MetricWritten(t) ==
    /\ result[t].status = "returned"
    /\ LastCall(t).fn = "record_metric"
    /\ backend = "mongodb" => result[t].value = Str("oid")
    /\ Len(telemetry) = 1
    /\ now - telemetry[1].timestamp < 1

C10_MetricRoundTrip ==
    \A t \in Threads :
        MetricWritten(t)
        => LET found == telemetry_find(now - 1)
               a == LastCall(t).args
           IN /\ Len(found) = 1
              /\ found[1].metric_type = a.metric_type
              /\ found[1].value = a.value
              /\ StoredEntries(found[1].metadata) = a.metadata.items

\* A metric with metadata {"case": "t1"} has been written and is read back.
C10_Witness ==
    \E t \in Threads :
        /\ MetricWritten(t)
        /\ LastCall(t).args.metadata = Dict({<<"case", "t1">>})
        /\ Len(telemetry_find(now - 1)) = 1

\* C11: get_metrics_summary over a store that holds no metric and no alert
\* record returns a structure with no metric-type bucket and with
\* total_operations = 0.  (Both stores only grow, so stores that are empty now
\* were empty during the call.)
C11_EmptySummary ==
    \A t \in Threads :
        ( /\ result[t].status = "returned"
          /\ LastCall(t).fn = "get_metrics_summary"
          /\ "summary" \in DOMAIN result[t].value
          /\ telemetry = <<>>
          /\ db_alerts = <<>> )
        => LET summary == result[t].value.summary
           IN /\ DOMAIN summary.metrics = {}
              /\ "total_operations" \in DOMAIN summary
              /\ summary.total_operations = 0

\* C12: when the write of record_metric fails, record_metric returns the empty
\* identifier and raises nothing; and a record_operation whose metric was not
\* stored still goes through its remaining steps with the counters updated:
\* it does not stay inside record_metric and no storage error reaches its caller.
StorageError == Dict({<<"error", "sqlite3.Error">>})

C12_MetricFailureSwallowed ==
    \A t \in Threads :
        ( /\ CallsMade = 1
          /\ Len(calls[t]) = 1
          /\ telemetry = <<>> )
        => /\ ( /\ calls[t][1].fn = "record_metric"
                /\ Over(t) )
              => result[t] = [status |-> "returned", value |-> Str("")]
           /\ ( /\ calls[t][1].fn = "record_operation"
                /\ calls[t][1].args.success
                /\ Over(t) \/ AtRest )
              => /\ \A i \in DOMAIN stack[t] : stack[t][i].fn # "record_metric"
                 /\ result[t].value # StorageError
                 /\ metrics.total_operations = 1

\* C13: each completed record_operation(latency_ms, cost_usd, success) has
\* appended exactly one 'latency' metric with value latency_ms and exactly one
\* 'cost' metric with value cost_usd iff cost_usd > 0.  Stated for the moments
\* when every thread has made at most one call, all of them record_operation
\* calls that have returned: the store then holds those metrics and no other.
OperationsCompleted ==
    /\ CallsMade >= 1
    /\ \A t \in Threads :
         /\ stack[t] = <<>>
         /\ Len(calls[t]) <= 1
         /\ calls[t] # <<>> => /\ calls[t][1].fn = "record_operation"
                               /\ result[t].status = "returned"

Stored(metric_type, value) ==
    Cardinality({i \in DOMAIN telemetry : /\ telemetry[i].metric_type = metric_type
                                          /\ telemetry[i].value = value})

CallsWith(field, value) ==
    Cardinality({t \in Threads : calls[t] # <<>> /\ calls[t][1].args[field] = value})

NoFailedWrite == \A l \in DOMAIN log : log[l].msg # "Failed to record metric"

C13_OneMetricPerOperation ==
    OperationsCompleted
    => /\ \A v \in LatencyValues : Stored("latency", v) = CallsWith("latency_ms", v)
       /\ \A c \in CostValues :
            Stored("cost", c) = IF c > 0 THEN CallsWith("cost_usd", c) ELSE 0
       /\ \A i \in DOMAIN telemetry : telemetry[i].metric_type \in {"latency", "cost"}

\* C13 as amended: the same for the calls whose writes the store accepted; a
\* write that fails is logged and its metric is missing, never doubled.
C13_OneMetricPerOperationWritten ==
    OperationsCompleted
    => /\ \A v \in LatencyValues :
            /\ Stored("latency", v) <= CallsWith("latency_ms", v)
            /\ NoFailedWrite => Stored("latency", v) = CallsWith("latency_ms", v)
       /\ \A c \in CostValues :
            /\ Stored("cost", c) <= (IF c > 0 THEN CallsWith("cost_usd", c) ELSE 0)
            /\ NoFailedWrite =>
                 Stored("cost", c) = IF c > 0 THEN CallsWith("cost_usd", c) ELSE 0
       /\ \A i \in DOMAIN telemetry : telemetry[i].metric_type \in {"latency", "cost"}

\* Two operations have returned, one with a cost and one without, and the
\* store holds two latency metrics and one cost metric.
C13_Witness ==
    /\ OperationsCompleted
    /\ NoFailedWrite
    /\ CallsMade = 2
    /\ CallsWith("cost_usd", 0) = 1
    /\ CallsWith("cost_usd", 5) = 1
    /\ Stored("cost", 5) = 1
    /\ Len(telemetry) = 3

\* C14: every read and write of the running counters by record_operation,
\* record_error and get_system_health is made by a thread that holds the lock,
\* and two threads are never inside a `with self.lock:` block together.
\* The counters are read or written by the steps taken from these places:
CounterAccess(t) ==
    \/ At(t, "record_operation", "body")
    \/ At(t, "record_error", "body")
    \/ At(t, "record_error", "rate")
    \/ At(t, "get_system_health", "body")

\* The frame is inside its `with self.lock:` block.
InsideLock(f) ==
    \/ f.fn \in {"record_operation", "record_error", "send_alert", "get_system_health"}
       /\ f.pc # "acquire"
    \/ f.fn = "record_metric" /\ f.pc = "body"

Holders == {t \in Threads : \E i \in DOMAIN stack[t] : InsideLock(stack[t][i])}

C14_CountersUnderLock ==
    /\ [](/\ \A t \in Threads : CounterAccess(t) => lock = t
          /\ Cardinality(Holders) <= 1
          /\ Holders \subseteq {lock})
    /\ [][metrics' # metrics => \A t \in Threads : stack'[t] # stack[t] => lock = t]_vars

\* One thread holds the lock, the counters updated, while another waits to read them.
C14_Witness ==
    \E t, u \in Threads :
        /\ t # u
        /\ At(t, "record_operation", "latency_metric")
        /\ metrics.total_operations = 1
        /\ lock = t
        /\ At(u, "get_system_health", "acquire")

\* C15: after record_operation calls and no other, all of them over,
\* total_operations is the number of calls, total_latency the sum of their
\* latency_ms and total_cost the sum of their cost_usd; and the three change
\* together, in one step of the call that holds the lock.  (A call that ended
\* with an error after its update is counted like one that returned.)
SumOfCalls(field) ==
    LET RECURSIVE SumCalls(_, _)
        SumCalls(t, i) ==
            IF t = 0 THEN 0
            ELSE IF i = 0 THEN SumCalls(t - 1, IF t = 1 THEN 0 ELSE Len(calls[t - 1]))
            ELSE calls[t][i].args[field] + SumCalls(t, i - 1)
    IN SumCalls(NThreads, Len(calls[NThreads]))

OnlyOperations ==
    /\ CallsMade >= 1
    /\ \A t \in Threads :
         /\ stack[t] = <<>>
         /\ \A i \in DOMAIN calls[t] : calls[t][i].fn = "record_operation"

C16_AllRulesFire ==
    \A t \in Threads :
        ( /\ CallsMade = 1
          /\ Len(calls[t]) = 1
          /\ calls[t][1].fn = "record_operation"
          /\ calls[t][1].args.latency_ms > alert_thresholds["latency"]
          /\ calls[t][1].args.cost_usd > alert_thresholds["cost"]
          /\ Over(t) \/ AtRest )
        => /\ AlertsOfType("high_latency") # {}
           /\ AlertsOfType("high_cost") # {}
           /\ ( /\ ~calls[t][1].args.success
                /\ RateExceeds(metrics.error_count, metrics.total_operations,
                               alert_thresholds["error_rate"]) )
              => AlertsOfType("high_error_rate") # {}

\* C17: with total_operations = 0 the rates are computed over 1 and nothing
\* fails: get_system_health on a manager that has recorded nothing returns
\* error_rate 0 / 1 and avg_latency_ms 0 / 1, and a record_error before any
\* operation passes the error rate error_count / 1 on to its alert.  No
\* quotient the manager computes has the denominator 0.
RateAlertData ==
    {stack[p[1]][p[2]].args.data :
        p \in {q \in Frames : /\ stack[q[1]][q[2]].fn = "send_alert"
                              /\ "error_rate" \in DOMAIN stack[q[1]][q[2]].args.data}}
    \cup {alerts[i].data : i \in {j \in DOMAIN alerts : "error_rate" \in DOMAIN alerts[j].data}}

HealthReturned ==
    {result[t].value.health : t \in {u \in Threads : "health" \in DOMAIN result[u].value}}

Quotients ==
    {health.error_rate : health \in HealthReturned}
    \cup {health.avg_latency_ms : health \in HealthReturned}
    \cup {data.error_rate : data \in RateAlertData}

C17_DenominatorAtLeastOne ==
    /\ \A q \in Quotients : q.den >= 1
    /\ \A t \in Threads :
         ( /\ Over(t)
           /\ LastCall(t).fn = "get_system_health" )
         => result[t].status = "returned"
    /\ \A health \in HealthReturned :
         health.total_operations = 0
         => /\ health.error_rate = [num |-> health.error_count, den |-> 1]
            /\ health.avg_latency_ms = [num |-> 0, den |-> 1]
            /\ health.error_count = 0 => health.error_rate.num = 0
    /\ \A data \in RateAlertData :
         data.total_operations = 0
         => data.error_rate = [num |-> data.total_errors, den |-> 1]

\* get_system_health has returned zero rates on a manager that had recorded
\* nothing, and a record_error before any operation has computed 1 / 1.
C17_Witness ==
    \E t, u \in Threads :
        /\ result[t].status = "returned"
        /\ LastCall(t).fn = "get_system_health"
        /\ result[t].value.health.total_operations = 0
        /\ result[t].value.health.error_rate = [num |-> 0, den |-> 1]
        /\ stack[u] # <<>>
        /\ Top(u).fn = "send_alert"
        /\ Top(u).args.alert_type = "high_error_rate"
        /\ "error_rate" \in DOMAIN Top(u).args.data
        /\ Top(u).args.data.total_operations = 0
        /\ Top(u).args.data.error_rate = [num |-> 1, den |-> 1]

\* C18: the thresholds are fixed at construction: no operation of the manager
\* changes alert_thresholds, which stay what __init__ made of the configuration.
C18_ThresholdsFixed ==
    /\ [](alert_thresholds = InitThresholds(_load_config(backend, config_path).config))
    /\ [][alert_thresholds' = alert_thresholds]_vars

\* An operation over the latency threshold has been judged and is over, and
\* the thresholds are the defaults the manager was built with.
C18_Witness ==
    \E t \in Threads :
        /\ Over(t)
        /\ LastCall(t).fn = "record_operation"
        /\ LastCall(t).args.latency_ms > alert_thresholds["latency"]
        /\ config_path = "no path"
        /\ alert_thresholds = DefaultThresholds

\* C19: when the configuration source cannot be loaded (no path, no file, a
\* file that is unreadable or not JSON), the constructor still succeeds, the
\* thresholds are the complete defaults, and no later threshold lookup fails
\* for a missing key.
Unloadable == config_path \in {"no path", "missing file", "unreadable file"}

C19_DefaultsWhenNotLoaded ==
    Unloadable
    => /\ manager # "raised"
       /\ manager = "built" => alert_thresholds = DefaultThresholds
       /\ \A t \in Threads : result[t] # [status |-> "raised",
                                         value |-> Dict({<<"error", "KeyError">>})]

\* C20: the webhook is best effort.  A POST is made only by a send_alert that
\* finds ALERT_WEBHOOK set at that moment, and by every such one; there is at
\* most one POST per alert; and the step of a POST, failed or not, raises
\* nothing and leaves the alert list and the alert store as they are.
PostsOf(seq) == {i \in DOMAIN webhook_posts : webhook_posts[i].json.seq = seq}

C20_WebhookBestEffort ==
    /\ [](\A i \in DOMAIN alerts :
            /\ Cardinality(PostsOf(alerts[i].seq)) <= 1
            /\ \A k \in PostsOf(alerts[i].seq) : webhook_posts[k].json = alerts[i])
    /\ [][ \A t \in Threads :
             ( /\ At(t, "send_alert", "webhook")
               /\ stack'[t] # stack[t] )
             => /\ Len(webhook_posts') = Len(webhook_posts) + (IF ALERT_WEBHOOK THEN 1 ELSE 0)
                /\ alerts' = alerts
                /\ db_alerts' = db_alerts
                /\ result'[t].status # "raised" ]_vars
    /\ [][ webhook_posts' # webhook_posts
           => /\ ALERT_WEBHOOK
              /\ \E t \in Threads : At(t, "send_alert", "webhook") /\ stack'[t] # stack[t] ]_vars

\* The POST of an alert has failed: send_alert has returned, the alert is in
\* the list and in the store; and an alert raised while ALERT_WEBHOOK was not
\* set has no POST.
C20_Witness ==
    \E i, j \in DOMAIN alerts :
        /\ \E k \in PostsOf(alerts[i].seq) : ~webhook_posts[k].delivered
        /\ \E d \in DOMAIN db_alerts : db_alerts[d].seq = alerts[i].seq
        /\ PostsOf(alerts[j].seq) = {}
        /\ \A t \in Threads : result[t].status = "returned" /\ LastCall(t).fn = "send_alert"

\* C21: every record of the alert store was written by send_alert: it is the
\* record of an Alert of the manager's list, of the same type, and its
\* severity is the one the severity lookup gives for its type.
C21_SoleWriter ==
    \A i \in DOMAIN db_alerts :
        /\ \E j \in DOMAIN alerts : /\ alerts[j].seq = db_alerts[i].seq
                                    /\ alerts[j].alert_type = db_alerts[i].alert_type
        /\ db_alerts[i].severity = severity_map(db_alerts[i].alert_type)

\* C22: every frame that has been analyzed (the model has answered, whatever
\* the answer) has exactly one observation document, provided no insert has
\* failed; a document is created with eval_result and human_feedback unset,
\* and a step that sets one of them creates no document.
Analyzed(t) ==
    /\ Over(t)
    /\ LastCall(t).fn = "analyze_image_mongo"
    /\ "observation" \in DOMAIN result[t].value
ObservationsOf(image_path) ==
    {i \in DOMAIN observations : observations[i].image_path = image_path}
NoFailedInsert ==
    \A i \in DOMAIN log : log[i].msg # "Failed to save observation"

C22_OneObservationPerFrame ==
    /\ [](\A t \in Threads :
            Analyzed(t) /\ NoFailedInsert
            => Cardinality(ObservationsOf(LastCall(t).args.image_path)) = 1)
    /\ [][ /\ Len(observations') > Len(observations)
              => /\ Len(observations') = Len(observations) + 1
                 /\ SubSeq(observations', 1, Len(observations)) = observations
                 /\ observations'[Len(observations')].eval_result = "None"
                 /\ observations'[Len(observations')].human_feedback = "absent"
           /\ Len(observations') <= Len(observations)
              => /\ Len(observations') = Len(observations)
                 /\ \A i \in DOMAIN observations :
                       /\ observations'[i]._id = observations[i]._id
                       /\ observations'[i].image_path = observations[i].image_path ]_vars

\* C23: no column of the observations table is there twice; a run of
\* upgrade_database or init_db keeps the rows the table has; and once both
\* have run on the database, a further run of either changes nothing in the
\* database and fails on nothing.
HasRun(fn) == \E i \in DOMAIN calls[ScriptThread] : calls[ScriptThread][i].fn = fn
SchemaRun == calls'[ScriptThread] # calls[ScriptThread]
RowsKept(old, new) ==
    /\ Len(new.rows) = Len(old.rows)
    /\ \A i \in DOMAIN old.rows :
          \A name \in Names(old.columns) : new.rows[i][name] = old.rows[i][name]

C23_SchemaUpgradeIdempotent ==
    /\ [](Cardinality(Names(sqlite_db.observations.columns))
            = Len(sqlite_db.observations.columns))
    /\ [][ SchemaRun => RowsKept(sqlite_db.observations, sqlite_db'.observations) ]_vars
    /\ [][ SchemaRun /\ HasRun("upgrade_database") /\ HasRun("init_db")
           => sqlite_db' = sqlite_db /\ log' = log ]_vars

\* C29: when upgrade_database() has run on a database without tables and
\* init_db() runs after it, the database then has the observations table
\* with the eight telemetry columns and the performance_metrics table.
TelemetryColumns ==
    {"latency_ms", "tokens_in", "tokens_out", "cost_usd", "theft_detected", "eval_result",
     "human_feedback", "model_version"}
StartupOnNewDatabase ==
    /\ calls[ScriptThread] = <<[fn |-> "upgrade_database", args |-> NoArgs]>>
    /\ ~sqlite_db.observations.exists
    /\ Len(calls'[ScriptThread]) = 2
    /\ calls'[ScriptThread][2].fn = "init_db"

C29_StartupTables ==
    [][ StartupOnNewDatabase
        => /\ sqlite_db'.observations.exists
           /\ TelemetryColumns \subseteq Names(sqlite_db'.observations.columns)
           /\ sqlite_db'.performance_metrics ]_vars

\* C24: the effects of one alert come in the order list, store, warning line,
\* webhook: an effect is there only after the alert is in the list, the
\* store write is never made after the warning line or the POST, the warning
\* line never after the POST; and at most one thread is between the append
\* and the end of send_alert, so that the effects of two alerts do not
\* interleave.
ListedIn(list, seq) == \E i \in DOMAIN list : list[i].seq = seq
LoggedIn(lines, seq) == \E i \in DOMAIN lines : lines[i].msg = "ALERT" /\ lines[i].seq = seq
PostedIn(posts, seq) == \E i \in DOMAIN posts : posts[i].json.seq = seq
AlertSeqs == 1..MaxCalls
Sending == {t \in Threads : \E k \in DOMAIN stack[t] :
                               /\ stack[t][k].fn = "send_alert"
                               /\ stack[t][k].pc \in {"persist", "log", "webhook"}}

C24_EffectsInOrder ==
    /\ [](/\ \A i \in DOMAIN db_alerts : ListedIn(alerts, db_alerts[i].seq)
          /\ \A i \in DOMAIN log : log[i].msg = "ALERT" => ListedIn(alerts, log[i].seq)
          /\ \A i \in DOMAIN webhook_posts :
                LoggedIn(log, webhook_posts[i].json.seq)
          /\ Cardinality(Sending) <= 1)
    /\ [][ \A seq \in AlertSeqs :
             /\ ListedIn(alerts', seq) /\ ~ListedIn(alerts, seq)
                => /\ ~ListedIn(db_alerts', seq)
                   /\ ~LoggedIn(log', seq)
                   /\ ~PostedIn(webhook_posts', seq)
                   /\ Sending = {}
             /\ ListedIn(db_alerts', seq) /\ ~ListedIn(db_alerts, seq)
                => ~LoggedIn(log', seq) /\ ~PostedIn(webhook_posts', seq)
             /\ LoggedIn(log', seq) /\ ~LoggedIn(log, seq)
                => ~PostedIn(webhook_posts', seq) ]_vars

\* Two threads have each sent an alert to the end with the webhook set: both
\* alerts are in the list, in the store, in the log and posted.
C24_Witness ==
    /\ Len(alerts) = 2
    /\ \A seq \in {1, 2} : /\ ListedIn(db_alerts, seq)
                           /\ LoggedIn(log, seq)
                           /\ PostedIn(webhook_posts, seq)
    /\ \A t \in Threads : result[t].status = "returned" /\ LastCall(t).fn = "send_alert"

\* C25: no step decreases total_operations, error_count, total_latency or
\* total_cost, none changes start_time, and a step of get_system_health,
\* get_recent_alerts, get_metrics_summary or record_metric leaves all five
\* counters as they are.
Acting(t, fns) ==
    /\ stack[t] # <<>>
    /\ Top(t).fn \in fns
    /\ stack'[t] # stack[t]
ReadOnly == {"get_system_health", "get_recent_alerts", "get_metrics_summary", "record_metric"}

C25_CountersMonotonic ==
    [][ /\ metrics'.total_operations >= metrics.total_operations
        /\ metrics'.error_count >= metrics.error_count
        /\ metrics'.total_latency >= metrics.total_latency
        /\ metrics'.total_cost >= metrics.total_cost
        /\ metrics'.start_time = metrics.start_time
        /\ \A t \in Threads : Acting(t, ReadOnly) => metrics' = metrics ]_vars

\* An operation has been counted and the report made after it shows its
\* counts, which are still the manager's.
C25_Witness ==
    \E t, u \in Threads :
        /\ Over(t) /\ LastCall(t).fn = "record_operation"
        /\ result[u].status = "returned" /\ LastCall(u).fn = "get_system_health"
        /\ result[u].value.health.total_operations = 1
        /\ metrics.total_operations = 1
        /\ metrics.total_latency >= 3000

\* C26 as stated: in every summary returned, a bucket is there exactly for the
\* metric types with a record in the window; its count is the number of those
\* records and at least 1, its sum is the sum of their values, avg is sum /
\* count, min and max are the smallest and the largest value, neither is an
\* infinity, min <= avg <= max; and the summary is the one any other order of
\* the records gives.
Summarized(t) ==
    /\ result[t].status = "returned"
    /\ LastCall(t).fn = "get_metrics_summary"
    /\ "summary" \in DOMAIN result[t].value
Window(t) == telemetry_find(now - LastCall(t).args.hours)
OfType(rows, metric_type) == SelectSeq(rows, LAMBDA r : r.metric_type = metric_type)
TypesIn(rows) == {rows[i].metric_type : i \in DOMAIN rows}
SumOver(rows, picked) ==
    LET RECURSIVE Sum(_)
        Sum(rest) == IF rest = {} THEN 0
                     ELSE LET i == CHOOSE x \in rest : TRUE
                          IN rows[i].value + Sum(rest \ {i})
    IN Sum(picked)
BucketShape(bucket, rows) ==
    /\ bucket.count = Len(rows)
    /\ bucket.count >= 1
    /\ bucket.avg = FloatDiv(bucket.sum, bucket.count)
    /\ bucket.min = MinValue(rows)
    /\ bucket.max = MaxValue(rows)
    /\ bucket.min # PosInf
    /\ bucket.max # NegInf
BucketExact(bucket, rows) ==
    /\ bucket.sum = SumValues(rows)
    /\ bucket.min <= bucket.avg
    /\ bucket.avg <= bucket.max
SameInAnyOrder(t) ==
    \A order \in Permutations(DOMAIN Window(t)) :
        result[t].value.summary.metrics
          = WithAverages(ScanMetrics(<<>>, Reordered(Window(t), order)))

C26_BucketsExact ==
    \A t \in Threads :
        Summarized(t)
        => LET buckets == result[t].value.summary.metrics
           IN /\ DOMAIN buckets = TypesIn(Window(t))
              /\ \A metric_type \in DOMAIN buckets :
                    /\ BucketShape(buckets[metric_type], OfType(Window(t), metric_type))
                    /\ BucketExact(buckets[metric_type], OfType(Window(t), metric_type))
              /\ SameInAnyOrder(t)

\* C26 as the code has it: the buckets, count, avg = sum / count, min and max
\* are as stated for every order of the records; sum is the float sum in the
\* order of the cursor; it is the exact sum, with min <= avg <= max and the
\* same summary for every order, when no sum of some of the values needs
\* rounding.
NoRounding(rows) ==
    \A picked \in SUBSET DOMAIN rows :
        RoundRatio(SumOver(rows, picked), 1) = SumOver(rows, picked)

C26_BucketsInFloat ==
    \A t \in Threads :
        Summarized(t)
        => LET buckets == result[t].value.summary.metrics
           IN /\ DOMAIN buckets = TypesIn(Window(t))
              /\ \A metric_type \in DOMAIN buckets :
                    LET rows == OfType(Window(t), metric_type)
                    IN /\ BucketShape(buckets[metric_type], rows)
                       /\ \E order \in Permutations(DOMAIN rows) :
                             buckets[metric_type].sum
                               = ScanMetrics(<<>>, Reordered(rows, order))[metric_type].sum
                       /\ NoRounding(rows) => BucketExact(buckets[metric_type], rows)
              /\ (\A metric_type \in DOMAIN buckets :
                     NoRounding(OfType(Window(t), metric_type)))
                 => SameInAnyOrder(t)

\* A summary has come back in which one metric type has two records in the
\* window and a sum that was rounded, and a record of the store is of a type
\* with none in the window.
C26_Witness ==
    \E t \in Threads :
        /\ Summarized(t)
        /\ \E i \in DOMAIN telemetry : telemetry[i].metric_type \notin TypesIn(Window(t))
        /\ \E metric_type \in DOMAIN result[t].value.summary.metrics :
              LET bucket == result[t].value.summary.metrics[metric_type]
              IN /\ bucket.count = 2
                 /\ bucket.sum # SumValues(OfType(Window(t), metric_type))

\* C27: self.alerts changes only by a step of send_alert that appends one
\* Alert with resolved = False, and every such step appends one; no Alert of
\* the list is resolved; and the active_alerts of a report is the length of
\* the list, the number of alerts raised so far.
Appends(t) == At(t, "send_alert", "body") /\ stack'[t] # stack[t]
Reports(t) == At(t, "get_system_health", "body") /\ result'[t].status = "returned"

C27_AlertListOnlyGrows ==
    /\ [](\A i \in DOMAIN alerts : ~alerts[i].resolved /\ alerts[i].seq = i)
    /\ [][ /\ alerts' # alerts => \E t \in Threads : Appends(t)
           /\ (\E t \in Threads : Appends(t))
              => /\ Len(alerts') = Len(alerts) + 1
                 /\ SubSeq(alerts', 1, Len(alerts)) = alerts
                 /\ ~alerts'[Len(alerts')].resolved
           /\ \A t \in Threads :
                 Reports(t) => result'[t].value.health.active_alerts = Len(alerts) ]_vars

\* A report made after one alert was sent to the end shows one active alert.
C27_Witness ==
    \E t, u \in Threads :
        /\ result[t].status = "returned" /\ LastCall(t).fn = "send_alert"
        /\ result[u].status = "returned" /\ LastCall(u).fn = "get_system_health"
        /\ result[u].value.health.active_alerts = 1
        /\ Len(alerts) = 1

\* C28: an accessor constructs at most one instance, and every caller of it
\* gets that same instance.
Got(t, accessor) ==
    /\ result[t].status = "returned"
    /\ LastCall(t).fn = accessor

C28_OneInstance ==
    \A accessor \in Accessors :
        /\ instances[accessor] <= 1
        /\ \A t, u \in Threads :
              Got(t, accessor) /\ Got(u, accessor)
              => result[t].value.instance = result[u].value.instance

\* C30: a run of the feedback page that the user submitted for a detection,
\* and whose write did not fail, has written the verdict to that detection,
\* which is then off the review list, whatever was submitted earlier in the
\* session; and a step of the page changes no other document.
Submitted(t) ==
    /\ result[t].status = "returned"
    /\ LastCall(t).fn = "feedback_system_mongo"
    /\ LastCall(t).args.submitted
    /\ result[t].value.selected # 0
    /\ result[t].value.message # "Failed to save feedback"

C30_FeedbackForEveryObservation ==
    /\ [](\A t \in Threads :
            Submitted(t)
            => /\ observations[result[t].value.selected].human_feedback
                    = LastCall(t).args.feedback
               /\ \A i \in DOMAIN ReviewList : ReviewList[i] # result[t].value.selected)
    /\ [][ \A t \in Threads :
             Acting(t, {"feedback_system_mongo"})
             => /\ Len(observations') = Len(observations)
                /\ \A i \in DOMAIN observations :
                      observations'[i] # observations[i]
                      => /\ i = Top(t).loc.selected
                         /\ observations'[i]
                              = [observations[i] EXCEPT
                                   !.human_feedback = Top(t).args.feedback] ]_vars

====
